---- MODULE Spec2Model ----
(***************************************************************************)
(* Verification model of the surveillance-memory pipeline:                 *)
(*   - IdentityArbiter (phase 1): identify() and the 48 h body cache,      *)
(*     sequentially (SpecArbiter) and with concurrent clip workers         *)
(*     (SpecWorkers);                                                      *)
(*   - Event_Fusion_Pipeline (phase 2): sort, group, pack, refine          *)
(*     (SpecFusion);                                                       *)
(*   - Persistence_Pipeline (phase 4) on the relational store, with        *)
(*     enrolment (phase 0) and behaviour-driven roles (phase 3)            *)
(*     (SpecStore).                                                        *)
(* Times are seconds.  Embeddings are points on a line and the store's     *)
(* cosine similarity  1 - (a <=> b)  is  100 - |a - b|  (in percent).      *)
(***************************************************************************)
EXTENDS Integers, Sequences, FiniteSets, TLC

VARIABLES
    persons,            \* table persons: id -> row (ids are 1..Len)
    person_faces,       \* table person_faces: set of rows
    call,               \* arguments of the last identify() call
    result,             \* what the last identify() call returned
    wpc, wcall, wrow,   \* clip workers: position, arguments, row read by SELECT
    wres, wn,           \* clip workers: result of the call, calls made
    raw_clips, sorted_clips, fidx, current_buffer, event_clips_list,
    global_events, fpc, \* Event_Fusion_Pipeline.run
    event_logs, event_appearances,   \* tables event_logs, event_appearances
    tx,                 \* the open transaction of save_event (or NoTx)
    job,                \* save_event's local variables
    saved,              \* what the last save_event returned and found
    enrolment,          \* the last register_family since the last save_event
    pol_last, pol_current,   \* FusionPolicy.is_connected: its two arguments
    pol_verdict,        \* FusionPolicy.is_connected: what it returned
    tracks, next_track_id,   \* SimpleTracker of the clip being scanned
    scan_frame,         \* process_one_clip: index of the next frame
    clip_results,       \* process_one_clip: people detected, frame by frame
    clip_obj,           \* what process_one_clip returned
    evaluations,        \* log of the arbiter calls of the clip (full path)
    spc,                \* process_one_clip: position
    inferred_roles,     \* roles still to be mapped by _map_role_to_db
    db_roles,           \* the calls of _map_role_to_db made: argument, result
    daily_summaries,    \* table daily_summaries: set of rows
    clock,              \* CURRENT_TIMESTAMP of the store
    summary_run,        \* what the last run_for_date was given and returned
    gw_pc,              \* LLMGateway.generate under @retry: position
    gw_caller,          \* the component that called generate
    attempt_number,     \* retry_state.attempt_number
    gw_outcomes,        \* how each attempt of the call ended
    gw_slept,           \* the waits slept between the attempts, in seconds
    gw_calls,           \* calls of generate made
    answer_run,         \* what the last answer() was asked and returned
    refiner_event,      \* the packed event handed to the Identity Refiner
    refined_event,      \* what refine_event_identities made of it
    validator_call,     \* the response and timeline given to validate_and_clean
    validator_result    \* what validate_and_clean returned

arbiterVars == <<persons, person_faces, call, result>>
workerVars  == <<wpc, wcall, wrow, wres, wn>>
fusionVars  == <<raw_clips, sorted_clips, fidx, current_buffer,
                 event_clips_list, global_events, fpc>>
storeVars   == <<event_logs, event_appearances, tx, job, saved, enrolment>>
policyVars  == <<pol_last, pol_current, pol_verdict>>
scannerVars == <<tracks, next_track_id, scan_frame, clip_results, clip_obj,
                 evaluations, spc>>
roleMapVars == <<inferred_roles, db_roles>>
summaryVars == <<daily_summaries, clock, summary_run>>
gatewayVars == <<gw_pc, gw_caller, attempt_number, gw_outcomes, gw_slept, gw_calls>>
answerVars  == <<answer_run>>
refinerVars == <<refiner_event, refined_event>>
validatorVars == <<validator_call, validator_result>>
laterVars   == <<summaryVars, gatewayVars, answerVars, refinerVars, validatorVars>>
moreVars    == <<policyVars, scannerVars, roleMapVars, laterVars>>
vars == <<arbiterVars, workerVars, fusionVars, storeVars, moreVars>>

----------------------------------------------------------------------------
(* Shared values *)

\* Python None / SQL NULL for ids, vectors and timestamps.
None == -1

Abs(x) == IF x < 0 THEN -x ELSE x

\* 1 - (a <=> b): cosine similarity of two embeddings, in percent.
Similarity(a, b) == 100 - Abs(a - b)

MaxOf(S) == CHOOSE m \in S : \A x \in S : x <= m
MinOf(S) == CHOOSE m \in S : \A x \in S : m <= x

----------------------------------------------------------------------------
(* Phase 1: IdentityArbiter *)

face_threshold       == 65
body_threshold       == 60
soft_match_threshold == 55
\* timedelta(hours=48)
CacheWindowHours     == 48

time_limit(timestamp) == timestamp - CacheWindowHours * 3600

\* Inputs of identify(): probe embeddings and clip times.
FaceVecs  == {18, 35, 82}
BodyVecs  == {0, 29, 40, 45}
ClipTimes == {0, 20, 172820}

NoResult == [person_id |-> None, role |-> "none", method |-> "none",
             confidence |-> 0, body_embedding |-> None]
NoCall   == [face_vec |-> None, body_vec |-> None, timestamp |-> None]

\* UPDATE persons SET current_body_embedding, body_update_time, last_seen
\* WHERE id = person_id
_update_body_cache(ps, person_id, body_vec, timestamp) ==
    [ps EXCEPT ![person_id] =
        [@ EXCEPT !.current_body_embedding = body_vec,
                  !.body_update_time = timestamp,
                  !.last_seen = timestamp]]

\* Rows of the face SELECT: person_faces JOIN persons WHERE similarity >
\* face_threshold, and then ORDER BY distance LIMIT 1 (any of the nearest).
FaceRows(faces, face_vec) ==
    {f \in faces : Similarity(f.embedding, face_vec) > face_threshold}

NearestFaceRows(faces, face_vec) ==
    {f \in FaceRows(faces, face_vec) :
        \A g \in FaceRows(faces, face_vec) :
            Similarity(g.embedding, face_vec) <= Similarity(f.embedding, face_vec)}

\* Mutant: the body SELECT without its 48 h condition.
CacheEligible_NoWindow(ps, timestamp) ==
    {p \in DOMAIN ps :
        /\ ps[p].role = "owner"
        /\ ps[p].current_body_embedding # None}

\* WHERE role = 'owner' AND current_body_embedding IS NOT NULL
\*   AND body_update_time >= time_limit
CacheEligible(ps, timestamp) ==
    {p \in DOMAIN ps :
        /\ ps[p].role = "owner"
        /\ ps[p].current_body_embedding # None
        /\ ps[p].body_update_time # None
        /\ ps[p].body_update_time >= time_limit(timestamp)}

\* Rows of the body SELECT (similarity > body_threshold).
BodyRows(ps, body_vec, timestamp) ==
    {p \in CacheEligible(ps, timestamp) :
        Similarity(ps[p].current_body_embedding, body_vec) > body_threshold}

\* Rows of the soft SELECT (soft_match_threshold < similarity <= body_threshold).
SoftRows(ps, body_vec, timestamp) ==
    {p \in CacheEligible(ps, timestamp) :
        /\ Similarity(ps[p].current_body_embedding, body_vec) > soft_match_threshold
        /\ Similarity(ps[p].current_body_embedding, body_vec) <= body_threshold}

\* ORDER BY current_body_embedding <=> body_vec LIMIT 1 (any of the nearest).
NearestPersons(ps, rows, body_vec) ==
    {p \in rows :
        \A q \in rows :
            Similarity(ps[q].current_body_embedding, body_vec)
                <= Similarity(ps[p].current_body_embedding, body_vec)}

\* The three matchers return the set of outcomes the call can have: the
\* empty set is Python's None, more than one element is a tie of LIMIT 1.
_match_by_face(ps, faces, face_vec, body_vec, timestamp) ==
    {[persons |-> IF body_vec # None
                  THEN _update_body_cache(ps, f.person_id, body_vec, timestamp)
                  ELSE ps,
      result  |-> [person_id |-> f.person_id,
                   role |-> IF ps[f.person_id].role = "owner" THEN "family"
                            ELSE ps[f.person_id].role,
                   method |-> "face",
                   confidence |-> Similarity(f.embedding, face_vec),
                   body_embedding |-> body_vec]] :
        f \in NearestFaceRows(faces, face_vec)}

\* Mutant: a body hit that returns without refreshing the cache.
_match_by_body_NoRefresh(ps, body_vec, timestamp) ==
    {[persons |-> ps,
      result  |-> [person_id |-> p, role |-> "family", method |-> "body",
                   confidence |-> Similarity(ps[p].current_body_embedding, body_vec),
                   body_embedding |-> body_vec]] :
        p \in NearestPersons(ps, BodyRows(ps, body_vec, timestamp), body_vec)}

_match_by_body(ps, body_vec, timestamp) ==
    {[persons |-> _update_body_cache(ps, p, body_vec, timestamp),
      result  |-> [person_id |-> p, role |-> "family", method |-> "body",
                   confidence |-> Similarity(ps[p].current_body_embedding, body_vec),
                   body_embedding |-> body_vec]] :
        p \in NearestPersons(ps, BodyRows(ps, body_vec, timestamp), body_vec)}

\* Mutant: a soft match that writes the cache like a body hit does.
_soft_match_by_body_Sticky(ps, body_vec, timestamp) ==
    {[persons |-> _update_body_cache(ps, p, body_vec, timestamp),
      result  |-> [person_id |-> p, role |-> "suspected_family",
                   method |-> "soft_match",
                   confidence |-> Similarity(ps[p].current_body_embedding, body_vec),
                   body_embedding |-> body_vec]] :
        p \in NearestPersons(ps, SoftRows(ps, body_vec, timestamp), body_vec)}

_soft_match_by_body(ps, body_vec, timestamp) ==
    {[persons |-> ps,
      result  |-> [person_id |-> p, role |-> "suspected_family",
                   method |-> "soft_match",
                   confidence |-> Similarity(ps[p].current_body_embedding, body_vec),
                   body_embedding |-> body_vec]] :
        p \in NearestPersons(ps, SoftRows(ps, body_vec, timestamp), body_vec)}

Stranger(ps, body_vec) ==
    {[persons |-> ps,
      result  |-> [person_id |-> None, role |-> "stranger", method |-> "new",
                   confidence |-> 0, body_embedding |-> body_vec]]}

\* Mutant: the body cache is consulted before the face library.
identify_BodyFirst(ps, faces, face_vec, body_vec, timestamp) ==
    IF body_vec # None /\ _match_by_body(ps, body_vec, timestamp) # {}
    THEN _match_by_body(ps, body_vec, timestamp)
    ELSE IF face_vec # None /\ _match_by_face(ps, faces, face_vec, body_vec, timestamp) # {}
    THEN _match_by_face(ps, faces, face_vec, body_vec, timestamp)
    ELSE IF body_vec # None /\ _soft_match_by_body(ps, body_vec, timestamp) # {}
    THEN _soft_match_by_body(ps, body_vec, timestamp)
    ELSE Stranger(ps, body_vec)

\* identify(): strategy routing, first matcher that returns a result wins.
identify(ps, faces, face_vec, body_vec, timestamp) ==
    IF face_vec # None /\ _match_by_face(ps, faces, face_vec, body_vec, timestamp) # {}
    THEN _match_by_face(ps, faces, face_vec, body_vec, timestamp)
    ELSE IF body_vec # None /\ _match_by_body(ps, body_vec, timestamp) # {}
    THEN _match_by_body(ps, body_vec, timestamp)
    ELSE IF body_vec # None /\ _soft_match_by_body(ps, body_vec, timestamp) # {}
    THEN _soft_match_by_body(ps, body_vec, timestamp)
    ELSE Stranger(ps, body_vec)

\* The store after enrolment of two owners (phase 0), one of whom behaviour
\* inference may since have made a visitor, plus one Person created by the
\* persister for a stranger (no face, body cache set at creation).
\* persons.name: Family_<img_id> or Stranger_<timestamp>_<key suffix>.
PersonName(kind, key, t) == [kind |-> kind, key |-> key, time |-> t]

PersonRow(name, role, body, t) ==
    [name |-> name, role |-> role, current_body_embedding |-> body,
     body_update_time |-> t, last_seen |-> t, notes |-> <<>>]

EnrolledFaces ==
    {[person_id |-> 1, embedding |-> 0,   source_image |-> "lib/1.jpeg"],
     [person_id |-> 2, embedding |-> 100, source_image |-> "lib/2.jpeg"]}

InitStoreArbiter ==
    /\ \E r2 \in {"owner", "visitor"} :
         persons = <<PersonRow(PersonName("Family", 1, None), "owner", None, None),
                     PersonRow(PersonName("Family", 2, None), r2, None, None),
                     PersonRow(PersonName("Stranger", 0, 0), "unknown", 0, 0)>>
    /\ person_faces = EnrolledFaces

IdleWorkers == /\ wpc = "off" /\ wcall = NoCall /\ wrow = None /\ wres = None /\ wn = 0
IdleFusion  ==
    /\ raw_clips = <<>> /\ sorted_clips = <<>> /\ fidx = 0
    /\ current_buffer = <<>> /\ event_clips_list = <<>>
    /\ global_events = <<>> /\ fpc = "off"
NoTx    == [open |-> FALSE]
NoJob   == [pc |-> "idle"]
NoSaved == [done |-> FALSE]
NoEnrolment == [done |-> FALSE]
IdleStore   ==
    /\ event_logs = <<>> /\ event_appearances = <<>>
    /\ tx = NoTx /\ job = NoJob /\ saved = NoSaved /\ enrolment = NoEnrolment

NoClip      == [has_fields |-> FALSE]
IdlePolicy  == pol_last = NoClip /\ pol_current = NoClip /\ pol_verdict = "none"
IdleScanner ==
    /\ tracks = <<>> /\ next_track_id = 1 /\ scan_frame = 0
    /\ clip_results = <<>> /\ clip_obj = NoClip /\ evaluations = {} /\ spc = "off"
IdleRoleMap == inferred_roles = <<>> /\ db_roles = <<>>
NoRun       == [done |-> FALSE]
IdleSummary == daily_summaries = {} /\ clock = 0 /\ summary_run = NoRun
IdleGateway ==
    /\ gw_pc = "idle" /\ gw_caller = "none" /\ attempt_number = 0
    /\ gw_outcomes = <<>> /\ gw_slept = <<>> /\ gw_calls = 0
IdleAnswer  == answer_run = NoRun
NoEvent     == [clip_count |-> 0]
IdleRefiner == refiner_event = NoEvent /\ refined_event = NoEvent
NoValidation == [done |-> FALSE]
IdleValidator == validator_call = NoValidation /\ validator_result = NoValidation
IdleLater   == IdleSummary /\ IdleGateway /\ IdleAnswer /\ IdleRefiner /\ IdleValidator
IdleMore    == IdlePolicy /\ IdleScanner /\ IdleRoleMap /\ IdleLater

InitArbiter ==
    /\ InitStoreArbiter
    /\ call = NoCall /\ result = NoResult
    /\ IdleWorkers /\ IdleFusion /\ IdleStore /\ IdleMore

Identify ==
    \E face_vec \in FaceVecs \cup {None}, body_vec \in BodyVecs \cup {None},
       timestamp \in ClipTimes :
        \E o \in identify(persons, person_faces, face_vec, body_vec, timestamp) :
            /\ persons' = o.persons
            /\ result' = o.result
            /\ call' = [face_vec |-> face_vec, body_vec |-> body_vec,
                        timestamp |-> timestamp]
            /\ UNCHANGED <<person_faces, workerVars, fusionVars, storeVars, moreVars>>

NextArbiter == Identify

SpecArbiter == InitArbiter /\ [][NextArbiter]_vars

\* identify() on the store a run of the persister has left: one enrolled
\* owner and the Person row _get_or_create_stranger_person has inserted
\* for a stranger, with the role _map_role_to_db gave it (a role that
\* behaviour inference may have set to owner) and its body cache set at the
\* event's start time.
StrangerRowRoles == {"unknown", "visitor", "owner"}

InitPersisted ==
    /\ \E r \in StrangerRowRoles :
         persons = <<PersonRow(PersonName("Family", 1, None), "owner", None, None),
                     PersonRow(PersonName("Stranger", 0, 0), r, 0, 0)>>
    /\ person_faces = {f \in EnrolledFaces : f.person_id = 1}
    /\ call = NoCall /\ result = NoResult
    /\ IdleWorkers /\ IdleFusion /\ IdleStore /\ IdleMore

SpecPersisted == InitPersisted /\ [][NextArbiter]_vars

----------------------------------------------------------------------------
(* Claims about identify() under SpecArbiter *)

\* C1: an identify call that resolves by soft-body hit or by miss leaves
\* every Person's current_body_embedding, body_update_time and last_seen
\* unchanged.
C1_SoftAndMissKeepCache ==
    [][result'.method \in {"soft_match", "new"} => persons' = persons]_vars

\* C30: a Person's body_update_time and last_seen never move backwards:
\* every cache write sets them to a time greater than or equal to their
\* previous value, whatever the order of the clips.
C30_TimesNeverMoveBack ==
    [][\A p \in DOMAIN persons :
          /\ persons[p].body_update_time # None =>
                persons'[p].body_update_time >= persons[p].body_update_time
          /\ persons[p].last_seen # None =>
                persons'[p].last_seen >= persons[p].last_seen]_vars

\* The same for clips that come in time order: each call carries a
\* timestamp not earlier than any cached time.
TimesMoveOnInTimeOrder ==
    [][(\A p \in DOMAIN persons :
            persons[p].body_update_time # None =>
                call'.timestamp >= persons[p].body_update_time)
        => \A p \in DOMAIN persons :
              /\ persons[p].body_update_time # None =>
                    persons'[p].body_update_time >= persons[p].body_update_time
              /\ persons[p].last_seen # None =>
                    persons'[p].last_seen >= persons[p].last_seen]_vars

HasEnrolledFace(person_id) == \E f \in person_faces : f.person_id = person_id

\* C31: the arbiter never resolves a detection as family, by face or by
\* body, against a Person that has no enrolled PersonFace (such as a Person
\* row the persister created for a stranger).
C31_FamilyOnlyWithFace ==
    (result.role = "family" /\ result.method \in {"face", "body"}) =>
        HasEnrolledFace(result.person_id)

\* A later clip shows the stranger again: the body SELECT returns the row
\* the persister made.
StrangerRowReturned ==
    /\ result.person_id # None
    /\ ~HasEnrolledFace(result.person_id)

\* The same on stores in which no Person without a face has role owner.
FamilyOnlyWithFaceWhenOwnersHaveFaces ==
    (/\ \A p \in DOMAIN persons : persons[p].role = "owner" => HasEnrolledFace(p)
     /\ result.role = "family" /\ result.method \in {"face", "body"}) =>
        HasEnrolledFace(result.person_id)

\* S3: clip at 09:00:20 resolved suspected_family against Person 1, whose
\* cache still carries 09:00:00.
C1_Witness ==
    /\ result.role = "suspected_family" /\ result.person_id = 1
    /\ call.timestamp = 20
    /\ persons[1].body_update_time = 0

\* C2 as claimed: every face hit and every body hit leaves the matched
\* Person's body_update_time and last_seen equal to the clip time.
C2_EveryHitUpdatesCache ==
    result.method \in {"face", "body"} =>
        /\ persons[result.person_id].body_update_time = call.timestamp
        /\ persons[result.person_id].last_seen = call.timestamp

\* C2 amended: a body hit, and a face hit of a call that carries a body
\* vector, leave the matched Person's cache holding that vector with
\* body_update_time and last_seen equal to the clip time; a face hit without
\* a body vector leaves the whole table as it was.
C2_HitWithBodyUpdatesCache ==
    [][/\ (result'.method = "body" \/ (result'.method = "face" /\ call'.body_vec # None))
          => /\ persons'[result'.person_id].current_body_embedding = call'.body_vec
             /\ persons'[result'.person_id].body_update_time = call'.timestamp
             /\ persons'[result'.person_id].last_seen = call'.timestamp
       /\ (result'.method = "face" /\ call'.body_vec = None) => persons' = persons]_vars

\* S2: after the face hit at 09:00:00, the body hit at 09:00:20 moves
\* Person 1's body_update_time to 09:00:20.
C2_Witness ==
    /\ result.method = "body" /\ result.person_id = 1
    /\ call.timestamp = 20 /\ call.face_vec = None
    /\ persons[1].body_update_time = 20 /\ persons[1].last_seen = 20

\* C4: a detection is resolved family-by-body or suspected_family against a
\* Person only if, when the call is made, that Person has role owner and
\* body_update_time >= clip_time - 48 h.
C4_BodyMatchOnlyFreshOwner ==
    [][result'.method \in {"body", "soft_match"} =>
          /\ persons[result'.person_id].role = "owner"
          /\ persons[result'.person_id].body_update_time # None
          /\ persons[result'.person_id].body_update_time
                >= call'.timestamp - 48 * 3600]_vars

\* An owner's cache holds the very vector of the call but is older than
\* 48 h, and the call ends as a miss.
C4_Witness ==
    /\ result.role = "stranger" /\ call.body_vec # None
    /\ \E p \in DOMAIN persons :
        /\ persons[p].role = "owner"
        /\ persons[p].current_body_embedding = call.body_vec
        /\ persons[p].body_update_time < call.timestamp - 48 * 3600

\* C5: face, body, soft body, miss, in this order, the first that matches
\* decides: best face similarity > 0.65 gives method face; otherwise best
\* body similarity (fresh owners) > 0.60 gives family by body; otherwise one
\* in (0.55, 0.60] gives suspected_family; otherwise stranger, no person_id,
\* body vector echoed.
C5_FaceSims ==
    IF call'.face_vec = None THEN {}
    ELSE {Similarity(f.embedding, call'.face_vec) : f \in person_faces}

C5_BodySims ==
    IF call'.body_vec = None THEN {}
    ELSE {Similarity(persons[p].current_body_embedding, call'.body_vec) :
            p \in {q \in DOMAIN persons :
                    /\ persons[q].role = "owner"
                    /\ persons[q].current_body_embedding # None
                    /\ persons[q].body_update_time # None
                    /\ persons[q].body_update_time >= call'.timestamp - 48 * 3600}}

----------------------------------------------------------------------------
(* Phase 1 with several clip workers.  Every worker runs identify() on its   *)
(* own connection; each SELECT and each UPDATE-and-commit is one step of the *)
(* store (READ COMMITTED), and the code takes no lock between them.          *)

Workers        == {1, 2}
MaxWorkerCalls == 2
WorkerFaceVecs == {18}
WorkerBodyVecs == {0, 40}
WorkerTimes    == {0, 20}

NoRow == [person_id |-> None, similarity |-> 0, seen |-> None]

InitWorkers ==
    /\ InitStoreArbiter
    /\ call = NoCall /\ result = NoResult
    /\ wpc = [w \in Workers |-> "idle"]
    /\ wcall = [w \in Workers |-> NoCall]
    /\ wrow = [w \in Workers |-> NoRow]
    /\ wres = [w \in Workers |-> NoResult]
    /\ wn = [w \in Workers |-> 0]
    /\ IdleFusion /\ IdleStore /\ IdleMore

WorkerKeeps == UNCHANGED <<person_faces, call, result, fusionVars, storeVars, moreVars>>

\* identify() is entered: strategy routing on the arguments.
WorkerCall(w) ==
    /\ wpc[w] \in {"idle", "returned"} /\ wn[w] < MaxWorkerCalls
    /\ \E face_vec \in WorkerFaceVecs \cup {None},
          body_vec \in WorkerBodyVecs \cup {None}, timestamp \in WorkerTimes :
        /\ wcall' = [wcall EXCEPT ![w] = [face_vec |-> face_vec,
                        body_vec |-> body_vec, timestamp |-> timestamp]]
        /\ wpc' = [wpc EXCEPT ![w] = IF face_vec # None THEN "face_select"
                                      ELSE IF body_vec # None THEN "body_select"
                                      ELSE "returned"]
        /\ wres' = [wres EXCEPT ![w] =
                IF face_vec = None /\ body_vec = None
                THEN [person_id |-> None, role |-> "stranger", method |-> "new",
                      confidence |-> 0, body_embedding |-> None]
                ELSE NoResult]
    /\ wn' = [wn EXCEPT ![w] = @ + 1]
    /\ wrow' = [wrow EXCEPT ![w] = NoRow]
    /\ UNCHANGED persons
    /\ WorkerKeeps

\* _match_by_face: the SELECT.  A row with a body vector at hand leads to the
\* UPDATE; a row without one returns at once; no row falls through to the
\* body path, or to the stranger result when there is no body vector.
WorkerFaceSelect(w) ==
    /\ wpc[w] = "face_select"
    /\ LET rows == NearestFaceRows(person_faces, wcall[w].face_vec) IN
        IF rows = {}
        THEN /\ wpc' = [wpc EXCEPT ![w] = IF wcall[w].body_vec # None
                                          THEN "body_select" ELSE "returned"]
             /\ wres' = [wres EXCEPT ![w] =
                    IF wcall[w].body_vec # None THEN NoResult
                    ELSE [person_id |-> None, role |-> "stranger",
                          method |-> "new", confidence |-> 0,
                          body_embedding |-> None]]
             /\ UNCHANGED wrow
        ELSE \E f \in rows :
             /\ wrow' = [wrow EXCEPT ![w] =
                    [person_id |-> f.person_id,
                     similarity |-> Similarity(f.embedding, wcall[w].face_vec),
                     seen |-> persons[f.person_id]]]
             /\ wpc' = [wpc EXCEPT ![w] = IF wcall[w].body_vec # None
                                          THEN "face_update" ELSE "returned"]
             /\ wres' = [wres EXCEPT ![w] =
                    IF wcall[w].body_vec # None THEN NoResult
                    ELSE [person_id |-> f.person_id,
                          role |-> IF persons[f.person_id].role = "owner"
                                   THEN "family" ELSE persons[f.person_id].role,
                          method |-> "face",
                          confidence |-> Similarity(f.embedding, wcall[w].face_vec),
                          body_embedding |-> None]]
    /\ UNCHANGED <<persons, wcall, wn>>
    /\ WorkerKeeps

\* _match_by_face: _update_body_cache, commit, return.
WorkerFaceUpdate(w) ==
    /\ wpc[w] = "face_update"
    /\ persons' = _update_body_cache(persons, wrow[w].person_id,
                                     wcall[w].body_vec, wcall[w].timestamp)
    /\ wres' = [wres EXCEPT ![w] =
            [person_id |-> wrow[w].person_id,
             role |-> IF wrow[w].seen.role = "owner" THEN "family"
                      ELSE wrow[w].seen.role,
             method |-> "face", confidence |-> wrow[w].similarity,
             body_embedding |-> wcall[w].body_vec]]
    /\ wpc' = [wpc EXCEPT ![w] = "returned"]
    /\ UNCHANGED <<wcall, wrow, wn>>
    /\ WorkerKeeps

\* _match_by_body: the SELECT.
WorkerBodySelect(w) ==
    /\ wpc[w] = "body_select"
    /\ LET rows == NearestPersons(persons,
                       BodyRows(persons, wcall[w].body_vec, wcall[w].timestamp),
                       wcall[w].body_vec) IN
        IF rows = {}
        THEN /\ wpc' = [wpc EXCEPT ![w] = "soft_select"]
             /\ UNCHANGED wrow
        ELSE \E p \in rows :
             /\ wrow' = [wrow EXCEPT ![w] =
                    [person_id |-> p,
                     similarity |-> Similarity(persons[p].current_body_embedding,
                                               wcall[w].body_vec),
                     seen |-> persons[p]]]
             /\ wpc' = [wpc EXCEPT ![w] = "body_update"]
    /\ UNCHANGED <<persons, wcall, wres, wn>>
    /\ WorkerKeeps

\* _match_by_body: _update_body_cache, commit, return.
WorkerBodyUpdate(w) ==
    /\ wpc[w] = "body_update"
    /\ persons' = _update_body_cache(persons, wrow[w].person_id,
                                     wcall[w].body_vec, wcall[w].timestamp)
    /\ wres' = [wres EXCEPT ![w] =
            [person_id |-> wrow[w].person_id, role |-> "family",
             method |-> "body", confidence |-> wrow[w].similarity,
             body_embedding |-> wcall[w].body_vec]]
    /\ wpc' = [wpc EXCEPT ![w] = "returned"]
    /\ UNCHANGED <<wcall, wrow, wn>>
    /\ WorkerKeeps

\* _soft_match_by_body: the SELECT and the return; no row: a stranger.
WorkerSoftSelect(w) ==
    /\ wpc[w] = "soft_select"
    /\ \E o \in IF _soft_match_by_body(persons, wcall[w].body_vec,
                                       wcall[w].timestamp) # {}
                THEN _soft_match_by_body(persons, wcall[w].body_vec,
                                         wcall[w].timestamp)
                ELSE Stranger(persons, wcall[w].body_vec) :
        wres' = [wres EXCEPT ![w] = o.result]
    /\ wpc' = [wpc EXCEPT ![w] = "returned"]
    /\ UNCHANGED <<persons, wcall, wrow, wn>>
    /\ WorkerKeeps

NextWorkers ==
    \E w \in Workers :
        \/ WorkerCall(w)
        \/ WorkerFaceSelect(w)
        \/ WorkerFaceUpdate(w)
        \/ WorkerBodySelect(w)
        \/ WorkerBodyUpdate(w)
        \/ WorkerSoftSelect(w)

SpecWorkers == InitWorkers /\ [][NextWorkers]_vars

\* C3: with several clip workers in identify, the read-decide-write on one
\* Person's body cache is serialized: from a worker's SELECT of a Person to
\* its cache write, that Person's row is as the worker read it (nobody else
\* wrote it in between), so no update is lost.
C3_ReadDecideWriteSerialized ==
    \A w \in Workers :
        wpc[w] \in {"face_update", "body_update"} =>
            persons[wrow[w].person_id] = wrow[w].seen

----------------------------------------------------------------------------
(* Phase 2: Event_Fusion_Pipeline *)

time_threshold == 60
MaxClips       == 3

\* A detection as phase 1 leaves it in people_detected.
Det(person_id, role, method) ==
    [person_id |-> person_id, role |-> role, method |-> method]

family1   == Det(1, "family", "face")
suspected1 == Det(1, "suspected_family", "soft_match")
stranger  == Det(None, "stranger", "new")

\* people_detected of the input clips: a list of frames, each a list of
\* detections.
PeopleDetected ==
    {<< <<family1>> >>,
     << <<suspected1>> >>,
     << <<stranger>>, <<stranger>>, <<stranger>> >>,
     << <<family1, stranger>> >>}

FusionTimes == {0, 3, 30, 80, 120}

\* Clip_Obj; has_fields is FALSE for a dict that lacks a required field.
ClipObjs ==
    [time : FusionTimes, cam : {"doorbell"}, has_fields : {TRUE},
     people_detected : PeopleDetected]
    \cup {[time |-> 0, cam |-> "doorbell", has_fields |-> FALSE,
           people_detected |-> <<>>]}

RECURSIVE Flatten(_)
Flatten(ss) == IF ss = <<>> THEN <<>> ELSE Head(ss) \o Flatten(Tail(ss))

Last(seq) == seq[Len(seq)]

\* for frame_people in clip['people_detected']: for person in frame_people
Detections(clip) == Flatten(clip.people_detected)

\* `if person_id:` -- None and 0 are not ids.
Truthy(person_id) == person_id # None /\ person_id # 0

_is_valid_clip(clip) == clip.has_fields

\* sorted(valid_clips, key=time): stable, equal times keep input order.
RECURSIVE InsertByTime(_, _)
InsertByTime(sorted, clip) ==
    IF sorted = <<>> THEN <<clip>>
    ELSE IF Last(sorted).time <= clip.time THEN Append(sorted, clip)
    ELSE Append(InsertByTime(SubSeq(sorted, 1, Len(sorted) - 1), clip), Last(sorted))

RECURSIVE SortedByTime(_)
SortedByTime(clips) ==
    IF clips = <<>> THEN <<>>
    ELSE InsertByTime(SortedByTime(SubSeq(clips, 1, Len(clips) - 1)), Last(clips))

\* Mutant: the clips are validated but left in input order.
sort_and_validate_Unsorted(clip_objs) == SelectSeq(clip_objs, _is_valid_clip)

sort_and_validate(clip_objs) == SortedByTime(SelectSeq(clip_objs, _is_valid_clip))

_check_time_rule(last_clip, current_clip) ==
    LET time_diff == current_clip.time - last_clip.time IN
    IF time_diff < 0 THEN FALSE ELSE time_diff < time_threshold

_extract_people_set(clip) ==
    LET ds == Detections(clip)
        has_family   == \E i \in DOMAIN ds : ds[i].role = "family"
        has_stranger == \E i \in DOMAIN ds : ds[i].role = "stranger"
    IN  [person_ids    |-> {ds[i].person_id : i \in {j \in DOMAIN ds : Truthy(ds[j].person_id)}},
         all_strangers |-> has_stranger /\ ~has_family,
         has_family    |-> has_family,
         has_stranger  |-> has_stranger]

_check_identity_rule(last_clip, current_clip) ==
    LET last_people    == _extract_people_set(last_clip)
        current_people == _extract_people_set(current_clip)
        time_diff      == current_clip.time - last_clip.time
    IN  IF last_people.person_ids \cap current_people.person_ids # {} THEN TRUE
        ELSE IF last_people.all_strangers /\ current_people.all_strangers
                /\ time_diff < 10 THEN TRUE
        ELSE IF time_diff < 5
                /\ \/ last_people.has_family /\ current_people.has_stranger
                   \/ last_people.has_stranger /\ current_people.has_family THEN TRUE
        ELSE FALSE

is_connected(last_clip, current_clip) ==
    _check_time_rule(last_clip, current_clip)
        /\ _check_identity_rule(last_clip, current_clip)

\* Mutant: the new clip is compared with the first clip of the buffer.
process_clip_FromFirst(buffer, clip) ==
    IF buffer = <<>> THEN [buffer |-> <<clip>>, completed |-> <<>>]
    ELSE IF is_connected(Head(buffer), clip)
    THEN [buffer |-> Append(buffer, clip), completed |-> <<>>]
    ELSE [buffer |-> <<clip>>, completed |-> <<buffer>>]

\* Mutant: the buffer is cut on the time rule alone.
process_clip_TimeOnly(buffer, clip) ==
    IF buffer = <<>> THEN [buffer |-> <<clip>>, completed |-> <<>>]
    ELSE IF _check_time_rule(Last(buffer), clip)
    THEN [buffer |-> Append(buffer, clip), completed |-> <<>>]
    ELSE [buffer |-> <<clip>>, completed |-> <<buffer>>]

\* SessionManager.process_clip: the new buffer and the completed events.
process_clip(buffer, clip) ==
    IF buffer = <<>> THEN [buffer |-> <<clip>>, completed |-> <<>>]
    ELSE IF is_connected(Last(buffer), clip)
    THEN [buffer |-> Append(buffer, clip), completed |-> <<>>]
    ELSE [buffer |-> <<clip>>, completed |-> <<buffer>>]

finalize(buffer) == IF buffer = <<>> THEN <<>> ELSE <<buffer>>

\* All detections of an event's clips, in clip, frame, person order.
EventDetections(clips) == Flatten([i \in DOMAIN clips |-> Detections(clips[i])])

\* people_ids of _extract_people_info / _reaggregate_people_info.
PeopleIds(clips) ==
    LET ds == EventDetections(clips) IN
    {ds[i].person_id : i \in {j \in DOMAIN ds : Truthy(ds[j].person_id)}}

\* EventAggregator.pack
pack(clips) ==
    [start_time |-> clips[1].time,
     end_time   |-> Last(clips).time,
     cameras    |-> {clips[i].cam : i \in DOMAIN clips},
     people     |-> PeopleIds(clips),
     clips      |-> clips,
     clip_count |-> Len(clips)]

\* person_stats: key None stands for 'stranger_unknown'.
_analyze_person_appearances(clips) ==
    LET ds == EventDetections(clips) IN
    [k \in {ds[i].person_id : i \in DOMAIN ds} |->
        [appearances |-> Cardinality({i \in DOMAIN ds : ds[i].person_id = k}),
         roles       |-> {ds[i].role : i \in {j \in DOMAIN ds : ds[j].person_id = k}}]]

\* Mutant: rule 1 fires from the second appearance on.
RefinePerson_FromTwo(person, frame_people, person_stats) ==
    LET person_id == person.person_id
        r1 == IF /\ person.role = "suspected_family" /\ Truthy(person_id)
                 /\ person_id \in DOMAIN person_stats
                 /\ person_stats[person_id].appearances >= 2
              THEN [person EXCEPT !.role = "family",
                                  !.method = "refined_from_suspected"]
              ELSE person
        has_family ==
            \E pid \in DOMAIN person_stats :
                /\ pid # None
                /\ \/ "family" \in person_stats[pid].roles
                   \/ "suspected_family" \in person_stats[pid].roles
        stranger_total_count ==
            IF None \in DOMAIN person_stats THEN person_stats[None].appearances
            ELSE 0
        r2 == IF /\ r1.role = "stranger" /\ person_id = None
                 /\ has_family /\ stranger_total_count >= 3
              THEN [r1 EXCEPT !.role = "suspected_family",
                              !.method = "refined_from_stranger"]
              ELSE r1
        has_family_in_clip ==
            \/ r2.role = "family"
            \/ \E i \in DOMAIN frame_people :
                frame_people[i] # person /\ frame_people[i].role = "family"
        r3 == IF /\ r2.role \in {"suspected_family", "stranger"}
                 /\ has_family_in_clip /\ Truthy(person_id)
              THEN [r2 EXCEPT !.role = "family",
                              !.method = "refined_from_context"]
              ELSE r2
    IN  r3

\* Mutant: rule 2 does not ask for a family member in the event.
RefinePerson_AnyEvent(person, frame_people, person_stats) ==
    LET person_id == person.person_id
        r1 == IF /\ person.role = "suspected_family" /\ Truthy(person_id)
                 /\ person_id \in DOMAIN person_stats
                 /\ person_stats[person_id].appearances >= 3
              THEN [person EXCEPT !.role = "family",
                                  !.method = "refined_from_suspected"]
              ELSE person
        has_family ==
            \E pid \in DOMAIN person_stats :
                /\ pid # None
                /\ \/ "family" \in person_stats[pid].roles
                   \/ "suspected_family" \in person_stats[pid].roles
        stranger_total_count ==
            IF None \in DOMAIN person_stats THEN person_stats[None].appearances
            ELSE 0
        r2 == IF /\ r1.role = "stranger" /\ person_id = None
                 /\ stranger_total_count >= 3
              THEN [r1 EXCEPT !.role = "suspected_family",
                              !.method = "refined_from_stranger"]
              ELSE r1
        has_family_in_clip ==
            \/ r2.role = "family"
            \/ \E i \in DOMAIN frame_people :
                frame_people[i] # person /\ frame_people[i].role = "family"
        r3 == IF /\ r2.role \in {"suspected_family", "stranger"}
                 /\ has_family_in_clip /\ Truthy(person_id)
              THEN [r2 EXCEPT !.role = "family",
                              !.method = "refined_from_context"]
              ELSE r2
    IN  r3

\* Rules 1-3 on one person of a frame; frame_people is the frame as the
\* loop has left it so far (the person dicts are changed in place).
RefinePerson(person, frame_people, person_stats) ==
    LET person_id == person.person_id
        r1 == IF /\ person.role = "suspected_family" /\ Truthy(person_id)
                 /\ person_id \in DOMAIN person_stats
                 /\ person_stats[person_id].appearances >= 3
              THEN [person EXCEPT !.role = "family",
                                  !.method = "refined_from_suspected"]
              ELSE person
        has_family ==
            \E pid \in DOMAIN person_stats :
                /\ pid # None
                /\ \/ "family" \in person_stats[pid].roles
                   \/ "suspected_family" \in person_stats[pid].roles
        stranger_total_count ==
            IF None \in DOMAIN person_stats THEN person_stats[None].appearances
            ELSE 0
        r2 == IF /\ r1.role = "stranger" /\ person_id = None
                 /\ has_family /\ stranger_total_count >= 3
              THEN [r1 EXCEPT !.role = "suspected_family",
                              !.method = "refined_from_stranger"]
              ELSE r1
        has_family_in_clip ==
            \/ r2.role = "family"
            \/ \E i \in DOMAIN frame_people :
                frame_people[i] # person /\ frame_people[i].role = "family"
        r3 == IF /\ r2.role \in {"suspected_family", "stranger"}
                 /\ has_family_in_clip /\ Truthy(person_id)
              THEN [r2 EXCEPT !.role = "family",
                              !.method = "refined_from_context"]
              ELSE r2
    IN  r3

RECURSIVE RefineFrame(_, _, _)
RefineFrame(frame_people, i, person_stats) ==
    IF i > Len(frame_people) THEN frame_people
    ELSE RefineFrame([frame_people EXCEPT ![i] =
                         RefinePerson(frame_people[i], frame_people, person_stats)],
                     i + 1, person_stats)

_refine_clip_identities(clip, person_stats) ==
    [clip EXCEPT !.people_detected =
        [f \in DOMAIN clip.people_detected |->
            RefineFrame(clip.people_detected[f], 1, person_stats)]]

\* IdentityRefiner.refine_event_identities
refine_event_identities(global_event) ==
    LET person_stats  == _analyze_person_appearances(global_event.clips)
        refined_clips == [i \in DOMAIN global_event.clips |->
                            _refine_clip_identities(global_event.clips[i], person_stats)]
    IN  [global_event EXCEPT !.clips = refined_clips,
                             !.people = PeopleIds(refined_clips)]

RECURSIVE SeqsUpTo(_, _)
SeqsUpTo(S, n) ==
    IF n = 0 THEN {<<>>}
    ELSE SeqsUpTo(S, n - 1)
         \cup {Append(q, x) : q \in {r \in SeqsUpTo(S, n - 1) : Len(r) = n - 1}, x \in S}

InitFusion ==
    /\ raw_clips \in SeqsUpTo(ClipObjs, MaxClips)
    /\ sorted_clips = <<>> /\ fidx = 0
    /\ current_buffer = <<>> /\ event_clips_list = <<>>
    /\ global_events = <<>> /\ fpc = "run"
    /\ persons = <<>> /\ person_faces = {} /\ call = NoCall /\ result = NoResult
    /\ IdleWorkers /\ IdleStore /\ IdleMore

FusionKeeps == UNCHANGED <<arbiterVars, workerVars, storeVars, moreVars>>

\* run(): empty input returns []; sort_and_validate; session_manager.reset().
FusionSort ==
    /\ fpc = "run"
    /\ sorted_clips' = IF raw_clips = <<>> THEN <<>> ELSE sort_and_validate(raw_clips)
    /\ fpc' = IF sorted_clips' = <<>> THEN "returned" ELSE "grouping"
    /\ fidx' = 1
    /\ current_buffer' = <<>>
    /\ UNCHANGED <<raw_clips, event_clips_list, global_events>>
    /\ FusionKeeps

\* for clip in sorted_clips: event_clips_list.extend(process_clip(clip))
FusionProcessClip ==
    /\ fpc = "grouping" /\ fidx <= Len(sorted_clips)
    /\ LET r == process_clip(current_buffer, sorted_clips[fidx]) IN
        /\ current_buffer' = r.buffer
        /\ event_clips_list' = event_clips_list \o r.completed
    /\ fidx' = fidx + 1
    /\ UNCHANGED <<raw_clips, sorted_clips, global_events, fpc>>
    /\ FusionKeeps

\* final_event = session_manager.finalize()
FusionFinalize ==
    /\ fpc = "grouping" /\ fidx > Len(sorted_clips)
    /\ event_clips_list' = event_clips_list \o finalize(current_buffer)
    /\ fpc' = "packing"
    /\ fidx' = 1
    /\ UNCHANGED <<raw_clips, sorted_clips, current_buffer, global_events>>
    /\ FusionKeeps

\* for event_clips in event_clips_list: pack, refine_event_identities, append
FusionPackEvent ==
    /\ fpc = "packing" /\ fidx <= Len(event_clips_list)
    /\ global_events' = Append(global_events,
            refine_event_identities(pack(event_clips_list[fidx])))
    /\ fidx' = fidx + 1
    /\ UNCHANGED <<raw_clips, sorted_clips, current_buffer, event_clips_list, fpc>>
    /\ FusionKeeps

\* return global_events
FusionReturn ==
    /\ fpc = "packing" /\ fidx > Len(event_clips_list)
    /\ fpc' = "returned"
    /\ UNCHANGED <<raw_clips, sorted_clips, fidx, current_buffer,
                   event_clips_list, global_events>>
    /\ FusionKeeps

NextFusion ==
    \/ FusionSort
    \/ FusionProcessClip
    \/ FusionFinalize
    \/ FusionPackEvent
    \/ FusionReturn

SpecFusion == InitFusion /\ [][NextFusion]_vars

----------------------------------------------------------------------------
(* Claims about Event Fusion, checked under SpecFusion *)

AdjacentConnected(clips) ==
    \A i \in 1..(Len(clips) - 1) : is_connected(clips[i], clips[i + 1])

AdjacentInTime(clips) ==
    \A i \in 1..(Len(clips) - 1) : _check_time_rule(clips[i], clips[i + 1])

ClipTimesOf(clips) == [i \in DOMAIN clips |-> clips[i].time]

\* C8 as stated: in every event output by Event Fusion every pair of
\* adjacent clips satisfies the FusionPolicy predicate (time rule and
\* identity rule), read on the clips the event carries.
C8_OutputPairsConnected ==
    \A k \in DOMAIN global_events :
        AdjacentConnected(global_events[k].clips)

\* C8 amended: every pair of adjacent clips of an event satisfied the
\* FusionPolicy predicate on the identities the clips had when they were
\* grouped; the output event holds the same clips at the same times, so the
\* time rule still holds on it, but the Identity Refiner may have rewritten
\* the roles the identity rule was decided on.
C8_GroupedPairsConnected ==
    /\ AdjacentConnected(current_buffer)
    /\ \A k \in DOMAIN event_clips_list :
        AdjacentConnected(event_clips_list[k])
    /\ \A k \in DOMAIN global_events :
        /\ ClipTimesOf(global_events[k].clips) = ClipTimesOf(event_clips_list[k])
        /\ AdjacentInTime(global_events[k].clips)

\* An output event of two clips or more that the refiner has changed.
C8_Witness ==
    /\ fpc = "returned"
    /\ \E k \in DOMAIN global_events :
        /\ Len(global_events[k].clips) >= 2
        /\ global_events[k].clips # event_clips_list[k]
        /\ ~AdjacentConnected(global_events[k].clips)

S4Clip(t) ==
    [time |-> t, cam |-> "doorbell", has_fields |-> TRUE,
     people_detected |-> << <<family1>> >>]

\* C9: events are maximal. Once grouping has ended the events are the
\* sorted clips cut into consecutive runs, and at every cut the policy
\* says NOT CONNECTED between the last clip of one event and the first of
\* the next, so no two sorted-adjacent connected clips are split; while
\* grouping the same holds of the sealed events and the buffer. S4: one
\* person at 0 s, 30 s and 120 s gives the events {0, 30} and {120}.
C9_EventsMaximal ==
    LET groups == IF fpc = "grouping"
                  THEN event_clips_list \o finalize(current_buffer)
                  ELSE event_clips_list
    IN  /\ fpc = "grouping" =>
            Flatten(groups) = SubSeq(sorted_clips, 1, fidx - 1)
        /\ fpc \in {"packing", "returned"} => Flatten(groups) = sorted_clips
        /\ \A k \in DOMAIN groups : groups[k] # <<>>
        /\ \A k \in 1..(Len(groups) - 1) :
            ~is_connected(Last(groups[k]), Head(groups[k + 1]))
        /\ (fpc = "returned" /\ sorted_clips = <<S4Clip(0), S4Clip(30), S4Clip(120)>>)
            => /\ event_clips_list = << <<S4Clip(0), S4Clip(30)>>, <<S4Clip(120)>> >>
               /\ Len(global_events) = 2

\* S4 has run from an input out of order and ended in its two events.
C9_Witness ==
    /\ fpc = "returned"
    /\ raw_clips = <<S4Clip(120), S4Clip(0), S4Clip(30)>>
    /\ sorted_clips = <<S4Clip(0), S4Clip(30), S4Clip(120)>>
    /\ Len(event_clips_list) = 2

SetOfTimes(clips) == {clips[i].time : i \in DOMAIN clips}

\* C10: whatever the input order, the output events are ordered in time:
\* end_time of an event is at most start_time of the next one, and an
\* event's start_time and end_time are the minimum and the maximum time of
\* its clips.
C10_EventsOrdered ==
    /\ \A k \in DOMAIN global_events :
        /\ global_events[k].start_time = MinOf(SetOfTimes(global_events[k].clips))
        /\ global_events[k].end_time = MaxOf(SetOfTimes(global_events[k].clips))
    /\ \A k \in 1..(Len(global_events) - 1) :
        global_events[k].end_time <= global_events[k + 1].start_time

\* Input out of time order, two events out, one of them of several clips.
C10_Witness ==
    /\ fpc = "returned"
    /\ \E i, j \in DOMAIN raw_clips : i < j /\ raw_clips[i].time > raw_clips[j].time
    /\ Len(global_events) = 2
    /\ \E k \in DOMAIN global_events : global_events[k].clip_count = 2
    /\ global_events[1].end_time < global_events[2].start_time

----------------------------------------------------------------------------
(* FusionPolicy.is_connected as a function of two clips (SpecPolicy) *)

family2    == Det(2, "family", "face")
suspected2 == Det(2, "suspected_family", "soft_match")

\* people_detected of the two clips: nobody, one family member, one
\* suspected family member, strangers, and frames that mix them.
PolicyPeople ==
    {<< <<>> >>,
     << <<family1>> >>,
     << <<family2>> >>,
     << <<suspected2>> >>,
     << <<stranger>>, <<stranger>> >>,
     << <<family1, stranger>> >>,
     << <<suspected2>>, <<stranger>> >>}

\* Start times of the last clip and of the current clip: the gaps they give
\* lie on both sides of 0, 5, 10 and 60 seconds.
PolicyLastTimes    == {0, 10}
PolicyCurrentTimes == {0, 3, 5, 9, 10, 19, 59, 60, 69, 70}

PolicyClip(t, people) ==
    [time |-> t, cam |-> "doorbell", has_fields |-> TRUE, people_detected |-> people]

InitPolicy ==
    /\ \E t \in PolicyLastTimes, p \in PolicyPeople : pol_last = PolicyClip(t, p)
    /\ \E t \in PolicyCurrentTimes, p \in PolicyPeople : pol_current = PolicyClip(t, p)
    /\ pol_verdict = "none"
    /\ persons = <<>> /\ person_faces = {} /\ call = NoCall /\ result = NoResult
    /\ IdleWorkers /\ IdleFusion /\ IdleStore /\ IdleScanner /\ IdleRoleMap
    /\ IdleLater

\* is_connected(last_clip, current_clip)
PolicyIsConnected ==
    /\ pol_verdict = "none"
    /\ pol_verdict' = IF is_connected(pol_last, pol_current)
                      THEN "CONNECTED" ELSE "NOT_CONNECTED"
    /\ UNCHANGED <<pol_last, pol_current>>
    /\ UNCHANGED <<arbiterVars, workerVars, fusionVars, storeVars, scannerVars,
                   roleMapVars, laterVars>>

NextPolicy == PolicyIsConnected

SpecPolicy == InitPolicy /\ [][NextPolicy]_vars

\* The conditions of the statement, read on the detections of the clips.
ResolvedIds(clip) ==
    LET ds == Detections(clip) IN
    {ds[i].person_id : i \in {j \in DOMAIN ds : ds[j].person_id # None}}

OnlyRole(clip, role) ==
    LET ds == Detections(clip) IN
    ds # <<>> /\ \A i \in DOMAIN ds : ds[i].role = role

PolicyGap == pol_current.time - pol_last.time

\* C11: FusionPolicy reports CONNECTED for (last, current) if and only if
\* the gap current.start - last.start is in [0, 60) seconds and at least one
\* of: (a) the clips share a resolved person id; (b) both clips contain only
\* strangers and the gap is under 10 s; (c) one clip contains only family,
\* the other only strangers, and the gap is under 5 s.
C11_ConnectedIffStated ==
    pol_verdict # "none" =>
        (pol_verdict = "CONNECTED" <=>
            /\ 0 <= PolicyGap /\ PolicyGap < time_threshold
            /\ \/ ResolvedIds(pol_last) \cap ResolvedIds(pol_current) # {}
               \/ /\ OnlyRole(pol_last, "stranger") /\ OnlyRole(pol_current, "stranger")
                  /\ PolicyGap < 10
               \/ /\ \/ OnlyRole(pol_last, "family") /\ OnlyRole(pol_current, "stranger")
                     \/ OnlyRole(pol_last, "stranger") /\ OnlyRole(pol_current, "family")
                  /\ PolicyGap < 5)

----------------------------------------------------------------------------
(* Phase 1: CV_Pipeline.process_one_clip with the intra-clip SimpleTracker  *)
(* (SpecScanner).  Frames are sampled at 1 fps; the detector's answer for a *)
(* frame and the arbiter's answer for a crop are inputs.                    *)

iou_threshold       == 70      \* percent
revalidate_interval == 5
max_age             == 3
MaxFrames           == 6

\* Bounding boxes (x1, y1, x2, y2): a person, the same person one step to
\* the right, and a second person far away.
BoxA  == <<0, 0, 17, 20>>
BoxA2 == <<3, 0, 20, 20>>
BoxB  == <<50, 0, 60, 20>>

\* person_crops of one frame, in the detector's order.  In the last one two
\* persons stand close: the IoU of their boxes is 14/20, which the
\* detector's non-maximum suppression (it drops boxes above 0.7) lets
\* through.
CropLists == {<<>>, <<BoxA>>, <<BoxA2>>, <<BoxA, BoxB>>, <<BoxA, BoxA2>>}

\* What arbiter.identify may return for a crop.
ScanIdentities == {family1, stranger}

\* Intersection over union, as the fraction num / den (0 / 1 when empty).
calculate_iou(bbox1, bbox2) ==
    LET x1_i == MaxOf({bbox1[1], bbox2[1]})
        y1_i == MaxOf({bbox1[2], bbox2[2]})
        x2_i == MinOf({bbox1[3], bbox2[3]})
        y2_i == MinOf({bbox1[4], bbox2[4]})
        intersection == (x2_i - x1_i) * (y2_i - y1_i)
        area1 == (bbox1[3] - bbox1[1]) * (bbox1[4] - bbox1[2])
        area2 == (bbox2[3] - bbox2[1]) * (bbox2[4] - bbox2[2])
        union == area1 + area2 - intersection
    IN  IF x2_i <= x1_i \/ y2_i <= y1_i THEN [num |-> 0, den |-> 1]
        ELSE IF union = 0 THEN [num |-> 0, den |-> 1]
        ELSE [num |-> intersection, den |-> union]

IoUGreater(a, b) == a.num * b.den > b.num * a.den

TrackedPerson(bbox, identity, at_frame) ==
    [bbox |-> bbox, identity |-> identity, last_frame_idx |-> at_frame,
     first_frame_idx |-> at_frame, skip_count |-> 0, total_detections |-> 1]

\* match: the live track with the highest IoU >= iou_threshold; the dict is
\* walked in insertion order and a later track wins only with a higher IoU.
match(trs, bbox, current_frame_idx) ==
    LET iou(id) == calculate_iou(bbox, trs[id].bbox)
        eligible == {id \in DOMAIN trs :
                        /\ current_frame_idx - trs[id].last_frame_idx <= max_age
                        /\ iou(id).num > 0
                        /\ 100 * iou(id).num >= iou_threshold * iou(id).den}
    IN  IF eligible = {} THEN None
        ELSE CHOOSE id \in eligible :
                \A j \in eligible \ {id} :
                    \/ IoUGreater(iou(id), iou(j))
                    \/ ~IoUGreater(iou(j), iou(id)) /\ id < j

create_track(trs, track_id, bbox, identity, at_frame) ==
    [id \in DOMAIN trs \cup {track_id} |->
        IF id = track_id THEN TrackedPerson(bbox, identity, at_frame) ELSE trs[id]]

\* Mutant: a re-evaluation moves the track but keeps its first identity.
update_track_KeepsIdentity(trs, track_id, bbox, identity, at_frame, skip_detection) ==
    IF track_id \notin DOMAIN trs THEN trs
    ELSE [trs EXCEPT ![track_id] =
            [@ EXCEPT !.bbox = bbox, !.last_frame_idx = at_frame,
                      !.total_detections = @ + 1,
                      !.skip_count = IF skip_detection THEN @ + 1 ELSE 0]]

update_track(trs, track_id, bbox, identity, at_frame, skip_detection) ==
    IF track_id \notin DOMAIN trs THEN trs
    ELSE [trs EXCEPT ![track_id] =
            [@ EXCEPT !.bbox = bbox, !.last_frame_idx = at_frame,
                      !.total_detections = @ + 1,
                      !.skip_count = IF skip_detection THEN @ + 1 ELSE 0,
                      !.identity = IF skip_detection THEN @ ELSE identity]]

should_revalidate(trs, track_id, current_frame_idx) ==
    IF track_id \notin DOMAIN trs THEN TRUE
    ELSE LET track == trs[track_id]
             frames_since_last_detection ==
                 current_frame_idx - track.last_frame_idx + track.skip_count
         IN  frames_since_last_detection >= revalidate_interval

cleanup(trs, current_frame_idx) ==
    LET expired == {id \in DOMAIN trs :
                        current_frame_idx - trs[id].last_frame_idx > max_age}
    IN  [id \in DOMAIN trs \ expired |-> trs[id]]

PersonInfo(identity, bbox, at_frame, track_id) ==
    [person_id |-> identity.person_id, role |-> identity.role,
     method |-> identity.method, bbox |-> bbox, frame_idx |-> at_frame,
     track_id |-> track_id]

\* The body of `for crop in person_crops`: acc holds the tracker, the
\* frame's people so far and the arbiter calls made; answer is what
\* arbiter.identify returns if the full path runs.
ProcessCrop(acc, bbox, answer, at_frame) ==
    LET track_id == match(acc.tracks, bbox, at_frame)
        skip_detection ==
            track_id # None /\ ~should_revalidate(acc.tracks, track_id, at_frame)
    IN  IF skip_detection
        THEN [acc EXCEPT
                !.tracks = update_track(acc.tracks, track_id, bbox, answer, at_frame, TRUE),
                !.frame_people = Append(@,
                    PersonInfo(acc.tracks[track_id].identity, bbox, at_frame, track_id))]
        ELSE LET tid == IF track_id # None THEN track_id ELSE acc.next_track_id IN
             [tracks |-> IF track_id # None
                         THEN update_track(acc.tracks, track_id, bbox, answer, at_frame, FALSE)
                         ELSE create_track(acc.tracks, tid, bbox, answer, at_frame),
              next_track_id |-> IF track_id # None THEN acc.next_track_id
                                ELSE acc.next_track_id + 1,
              frame_people |-> Append(acc.frame_people,
                                      PersonInfo(answer, bbox, at_frame, tid)),
              evaluations |-> acc.evaluations
                    \cup {[frame_idx |-> at_frame, track_id |-> tid, identity |-> answer]}]

RECURSIVE ProcessCrops(_, _, _, _)
ProcessCrops(acc, crops, answers, at_frame) ==
    IF crops = <<>> THEN acc
    ELSE ProcessCrops(ProcessCrop(acc, Head(crops), Head(answers), at_frame),
                      Tail(crops), Tail(answers), at_frame)

InitScanner ==
    /\ tracks = <<>> /\ next_track_id = 1 /\ scan_frame = 0
    /\ clip_results = <<>> /\ clip_obj = NoClip /\ evaluations = {}
    /\ spc = "frames"
    /\ persons = <<>> /\ person_faces = {} /\ call = NoCall /\ result = NoResult
    /\ IdleWorkers /\ IdleFusion /\ IdleStore /\ IdlePolicy /\ IdleRoleMap
    /\ IdleLater

ScannerKeeps ==
    UNCHANGED <<arbiterVars, workerVars, fusionVars, storeVars, policyVars, roleMapVars,
                laterVars>>

\* One pass of `for frame_idx, frame in enumerate(frames)`.
ScanFrame ==
    /\ spc = "frames" /\ scan_frame < MaxFrames
    /\ \E person_crops \in CropLists :
       \E answers \in [1..Len(person_crops) -> ScanIdentities] :
         LET acc == ProcessCrops([tracks |-> tracks, next_track_id |-> next_track_id,
                                  frame_people |-> <<>>, evaluations |-> evaluations],
                                 person_crops, answers, scan_frame)
         IN  /\ tracks' = cleanup(acc.tracks, scan_frame)
             /\ next_track_id' = acc.next_track_id
             /\ clip_results' = Append(clip_results, acc.frame_people)
             /\ evaluations' = acc.evaluations
    /\ scan_frame' = scan_frame + 1
    /\ UNCHANGED <<clip_obj, spc>>
    /\ ScannerKeeps

\* The video has no more frames: None for a video without frames, else the
\* Clip_Obj built by ResultBuffer.create_clip_obj.
ScanReturn ==
    /\ spc = "frames"
    /\ clip_obj' = IF scan_frame = 0 THEN NoClip
                   ELSE PolicyClip(0, clip_results)
    /\ spc' = "returned"
    /\ UNCHANGED <<tracks, next_track_id, scan_frame, clip_results, evaluations>>
    /\ ScannerKeeps

NextScanner == ScanFrame \/ ScanReturn

SpecScanner == InitScanner /\ [][NextScanner]_vars

----------------------------------------------------------------------------
(* Claims about the Clip Scanner, checked under SpecScanner *)

EmittedDetections ==
    LET ds == Flatten(clip_results) IN {ds[i] : i \in DOMAIN ds}

\* The detection went down the full path: the arbiter was called for its
\* track in its frame.
FullPath(d) ==
    \E e \in evaluations : e.frame_idx = d.frame_idx /\ e.track_id = d.track_id

EarlierEvaluations(d) ==
    {e \in evaluations : e.track_id = d.track_id /\ e.frame_idx < d.frame_idx}

\* C12: a detection matched to a live track reuses the track's stored
\* identity (no embedding extraction, no arbiter call) if and only if
\* (current frame index - frame index of the track's last full-path
\* evaluation) < REVALIDATE_INTERVAL (5); otherwise the full path runs.
C12_ReuseIffWithinInterval ==
    \A d \in EmittedDetections :
        EarlierEvaluations(d) # {} =>
            (~FullPath(d) <=>
                d.frame_idx - MaxOf({e.frame_idx : e \in EarlierEvaluations(d)})
                    < revalidate_interval)

\* C29: within one sampled frame no two detections receive the same
\* track_id.
C29_OneDetectionPerTrack ==
    \A f \in DOMAIN clip_results :
        \A i, j \in DOMAIN clip_results[f] :
            i # j => clip_results[f][i].track_id # clip_results[f][j].track_id

\* The same for frames whose boxes overlap each other by less than the
\* tracker's threshold.
OneDetectionPerTrackApart ==
    \A f \in DOMAIN clip_results :
        \A i, j \in DOMAIN clip_results[f] :
            (/\ i # j
             /\ LET iou == calculate_iou(clip_results[f][i].bbox, clip_results[f][j].bbox)
                IN  100 * iou.num < iou_threshold * iou.den) =>
                clip_results[f][i].track_id # clip_results[f][j].track_id

IdentityOf(d) == Det(d.person_id, d.role, d.method)

\* C13: every detection the Clip Scanner emits carries as resolved identity
\* (person_id, role, method) exactly what the arbiter returned at the most
\* recent full-path evaluation of the detection's track.
C13_IdentityOfLastEvaluation ==
    \A d \in EmittedDetections :
        \E e \in evaluations :
            /\ e.track_id = d.track_id /\ e.frame_idx <= d.frame_idx
            /\ \A e2 \in evaluations :
                   (e2.track_id = d.track_id /\ e2.frame_idx <= d.frame_idx)
                       => e2.frame_idx <= e.frame_idx
            /\ IdentityOf(d) = e.identity

\* A detection reuses the identity of a track that has been re-evaluated,
\* with another answer than the first one.
C13_Witness ==
    \E d \in EmittedDetections :
        /\ ~FullPath(d)
        /\ \E e1, e2 \in EarlierEvaluations(d) :
               e1.frame_idx < e2.frame_idx /\ e1.identity # e2.identity

----------------------------------------------------------------------------
(* Phases 0, 3 and 4 on the store: enrolment, behaviour-driven roles,      *)
(* Persistence_Pipeline                                                    *)

BODY_DIM        == 2048
MaxPersons      == 4
MaxStoredEvents == 2

\* A body vector: its dimension and its point on the line.
Vec(dim, v) == [dim |-> dim, v |-> v]
NoVec == Vec(0, None)

\* VectorAdapter.to_pgvector_body: raises ValueError on a wrong dimension.
to_pgvector_body(vector) ==
    IF vector.dim = BODY_DIM THEN [ok |-> TRUE, str |-> vector.v]
    ELSE [ok |-> FALSE, str |-> None]

StoreDet(person_id, role, method, confidence, body_embedding) ==
    [person_id |-> person_id, role |-> role, method |-> method,
     confidence |-> confidence, body_embedding |-> body_embedding]

\* What phase 1 resolves Person 1 to: 'family' if role == 'owner' else role.
ArbiterRole(role) == IF role = "owner" THEN "family" ELSE role

\* The frames an event to persist may hold.  Person 1 by face and by body,
\* strangers with a body vector, without one and with one of a wrong
\* dimension, a stranger the Identity Refiner has relabelled, Person 1
\* with a body vector of a wrong dimension and, while Person 1 is an owner,
\* Person 1 soft-matched three times, alone and with a face hit.
StorePeople(role1) ==
    LET byFace  == StoreDet(1, role1, "face", 82, Vec(BODY_DIM, 10))
        byBody  == StoreDet(1, role1, "body", 71, Vec(BODY_DIM, 12))
        str40   == StoreDet(None, "stranger", "new", 0, Vec(BODY_DIM, 40))
        str50   == StoreDet(None, "stranger", "new", 0, Vec(BODY_DIM, 50))
        strNone == StoreDet(None, "stranger", "new", 0, NoVec)
        strBad  == StoreDet(None, "stranger", "new", 0, Vec(512, 60))
        faceBad == StoreDet(1, role1, "face", 82, Vec(512, 10))
        soft    == StoreDet(1, "suspected_family", "soft_match", 57, Vec(BODY_DIM, 14))
        refined == StoreDet(None, "suspected_family", "refined_from_stranger", 0,
                            Vec(BODY_DIM, 40))
    IN  {<<byBody, byFace>>, <<str40>>, <<strNone>>, <<byFace, str40>>,
         <<str40, str50>>, <<byFace, strBad>>, <<refined>>, <<faceBad, str40>>, <<>>,
         <<byFace, str40, str40, str40>>}
        \cup (IF role1 = "family"
              THEN {<<soft, soft, soft>>, <<soft, soft, soft, byFace>>}
              ELSE {})

\* A summary text as the keyword lists and regular expressions of phase 3
\* see it: matches per role pattern list (scores), the Person_<id> it
\* names (mentions), whether a stranger pattern of RoleClassifier occurs
\* (stranger_mentioned), whether a strong delivery or service pattern
\* occurs (strong), and whether a family keyword or a stranger keyword of
\* ResponseValidator occurs without a negation before it.
NoCues == [delivery |-> 0, service |-> 0, visitor |-> 0, owner |-> 0]

Description(text, scores, mentions, stranger_mentioned, strong, family_words, stranger_words) ==
    [text |-> text, scores |-> scores, mentions |-> mentions,
     stranger_mentioned |-> stranger_mentioned, strong |-> strong,
     family_words |-> family_words, stranger_words |-> stranger_words]

\* What the LLM may answer.
Descriptions ==
    {Description("someone is at the door", NoCues, {}, FALSE, FALSE, FALSE, FALSE),
     Description("a family member (jiaren) talks to a stranger (moshengren) at the door",
                 [NoCues EXCEPT !.owner = 1], {}, TRUE, FALSE, TRUE, TRUE),
     Description("a stranger (moshengren) holding a parcel (nazhe baoguo)",
                 [NoCues EXCEPT !.delivery = 2], {}, TRUE, TRUE, FALSE, TRUE),
     Description("Person_1 rings the bell (an menling) and waits (dengdai)",
                 [NoCues EXCEPT !.visitor = 2], {1}, FALSE, FALSE, FALSE, FALSE),
     Description("a stranger (moshengren) loiters, no family member (meiyou jiaren) is there",
                 [NoCues EXCEPT !.owner = 1], {}, TRUE, FALSE, FALSE, TRUE)}

BEHAVIOR_PATTERNS == <<"delivery", "service", "visitor", "owner">>

\* RoleClassifier.classify_from_description: the role of the highest
\* score, the first of them in dictionary order on a tie.
classify_from_description(description, current_role) ==
    LET s    == description.scores
        best == MaxOf({s[BEHAVIOR_PATTERNS[i]] : i \in DOMAIN BEHAVIOR_PATTERNS})
        i0   == MinOf({i \in DOMAIN BEHAVIOR_PATTERNS : s[BEHAVIOR_PATTERNS[i]] = best})
    IN  IF best = 0 THEN current_role ELSE BEHAVIOR_PATTERNS[i0]

NoSource == "none"

\* IdentityRefiner._reaggregate_people_info; key -1 marks the strangers.
_reaggregate_people_info(clips) ==
    LET ds    == EventDetections(clips)
        ids   == {ds[i].person_id : i \in {j \in DOMAIN ds : Truthy(ds[j].person_id)}}
        first(pid) == ds[MinOf({i \in DOMAIN ds : ds[i].person_id = pid})]
        has_strangers ==
            \E i \in DOMAIN ds :
                IF Truthy(ds[i].person_id) THEN ds[i].role \in {"stranger", "unknown"}
                ELSE ds[i].role = "stranger"
        stranger_person_count ==
            Cardinality({pid \in ids : first(pid).role \in {"stranger", "unknown"}})
        keys == ids \cup (IF has_strangers \/ stranger_person_count > 0
                          THEN {-1} ELSE {})
    IN  [k \in keys |->
            IF k = -1
            THEN [role |-> "stranger", method |-> "new", role_source |-> NoSource]
            ELSE [role |-> first(k).role, method |-> first(k).method,
                  role_source |-> NoSource]]

\* RoleClassifier.extract_person_behaviors
extract_person_behaviors(description, people_info) ==
    LET known == {pid \in DOMAIN people_info : pid # -1 /\ pid \in description.mentions}
        any_pattern == \E i \in DOMAIN BEHAVIOR_PATTERNS :
                            description.scores[BEHAVIOR_PATTERNS[i]] > 0
        strangers == IF -1 \in DOMAIN people_info
                        /\ (description.stranger_mentioned \/ any_pattern)
                     THEN {-1} ELSE {}
    IN  [k \in known \cup strangers |->
            LET original_role == IF k = -1 THEN "unknown" ELSE people_info[k].role IN
            [inferred_role |-> classify_from_description(description, original_role),
             original_role |-> original_role]]

\* RoleClassifier.update_people_roles
update_people_roles(people_info, behaviors, description) ==
    [k \in DOMAIN people_info |->
        IF k \notin DOMAIN behaviors THEN people_info[k]
        ELSE LET b == behaviors[k]
                 inferred == [people_info[k] EXCEPT
                                !.role = b.inferred_role,
                                !.role_source = "behavior_inference"]
             IN  IF k = -1 THEN inferred
                 ELSE IF b.inferred_role = b.original_role THEN people_info[k]
                 ELSE IF b.original_role = "family"
                         /\ b.inferred_role \in {"delivery", "service"}
                 THEN IF description.strong
                      THEN [people_info[k] EXCEPT
                                !.role = b.inferred_role,
                                !.role_source = "behavior_override"]
                      ELSE people_info[k]
                 ELSE inferred]

\* ContextBuilder: the timeline names 'jiaren' for a family or
\* suspected_family detection and 'moshengren' for a stranger detection.
TimelineHas(global_event, roles) ==
    LET ds == EventDetections(global_event.clips) IN
    \E i \in DOMAIN ds : ds[i].role \in roles

\* ResponseValidator._check_hallucination: is_valid
_check_hallucination(description, global_event) ==
    /\ ~(description.family_words
            /\ ~TimelineHas(global_event, {"family", "suspected_family"}))
    /\ ~(description.stranger_words /\ ~TimelineHas(global_event, {"stranger"}))

\* ResponseValidator._generate_fallback: 'jiaren(Person_<id>)' for every
\* family entry of people_info and 'moshengren' for every stranger entry,
\* else a count of 'renyuan'.
_generate_fallback(global_event) ==
    LET people_info == global_event.people_info
        family    == {k \in DOMAIN people_info : people_info[k].role = "family"}
        strangers == {k \in DOMAIN people_info : people_info[k].role = "stranger"}
    IN  IF global_event.people # {} /\ family \cup strangers # {}
        THEN Description("fallback: who appeared",
                         [NoCues EXCEPT !.owner = Cardinality(family)],
                         family \ {-1}, strangers # {}, FALSE,
                         family # {}, strangers # {})
        ELSE Description("fallback: persons (renyuan) counted", NoCues, {},
                         TRUE, FALSE, FALSE, FALSE)

\* ResponseValidator.validate_and_clean: the summary that is accepted.
validate_and_clean(raw_response, global_event) ==
    IF _check_hallucination(raw_response, global_event) THEN raw_response
    ELSE _generate_fallback(global_event)

process_events_PeopleOnly(global_event, raw_response) ==
    IF global_event.people = {}
    THEN [global_event EXCEPT !.summary_text = "nobody appears"]
    ELSE LET description == validate_and_clean(raw_response, global_event)
             behaviors   == extract_person_behaviors(description, global_event.people_info)
         IN  [global_event EXCEPT
                !.summary_text = description.text,
                !.people_info = IF DOMAIN behaviors = {} THEN @
                                ELSE update_people_roles(@, behaviors, description)]

\* LLM_Reasoning_Pipeline.process_events on one Global_Event: no person and
\* no stranger mark gives the fixed summary, else the accepted summary and
\* the roles inferred from it.
process_events(global_event, raw_response) ==
    IF global_event.people = {} /\ -1 \notin DOMAIN global_event.people_info
    THEN [global_event EXCEPT !.summary_text = "nobody appears"]
    ELSE LET description == validate_and_clean(raw_response, global_event)
             behaviors   == extract_person_behaviors(description, global_event.people_info)
         IN  [global_event EXCEPT
                !.summary_text = description.text,
                !.people_info = IF DOMAIN behaviors = {} THEN @
                                ELSE update_people_roles(@, behaviors, description)]

\* Persistence_Pipeline._map_role_to_db
_map_role_to_db(inferred_role) ==
    CASE inferred_role \in {"owner", "family"} -> "owner"
      [] inferred_role \in {"visitor", "delivery", "service"} -> "visitor"
      [] OTHER -> "unknown"

\* QualitySelector._calculate_score of a detection without bbox.
_calculate_score(detection) ==
    (CASE detection.method = "face" -> 10000
       [] detection.method = "body" -> 5000
       [] OTHER -> 0)
    + detection.confidence

\* QualitySelector.select_best: the first detection of the highest score.
select_best(detection_list) ==
    LET best == MaxOf({_calculate_score(detection_list[i]) : i \in DOMAIN detection_list})
    IN  detection_list[MinOf({i \in DOMAIN detection_list :
                                _calculate_score(detection_list[i]) = best})]

\* QualitySelector._generate_stranger_key
_generate_stranger_key(person, index) ==
    IF person.body_embedding # NoVec
    THEN <<"stranger_hash", person.body_embedding.v>>
    ELSE <<"stranger_unknown", index>>

\* QualitySelector.group_by_person: the groups in dictionary order, known
\* persons under <<"person", id>>.
RECURSIVE GroupFrom(_, _, _, _)
GroupFrom(ds, i, grouped, stranger_index) ==
    IF i > Len(ds) THEN grouped
    ELSE LET person == ds[i]
             add(key) ==
                IF \E g \in DOMAIN grouped : grouped[g].key = key
                THEN [g \in DOMAIN grouped |->
                        IF grouped[g].key = key
                        THEN [grouped[g] EXCEPT !.detections = Append(@, person)]
                        ELSE grouped[g]]
                ELSE Append(grouped, [key |-> key, detections |-> <<person>>])
         IN  IF person.person_id # None
             THEN GroupFrom(ds, i + 1, add(<<"person", person.person_id>>), stranger_index)
             ELSE IF person.role = "stranger"
             THEN GroupFrom(ds, i + 1, add(_generate_stranger_key(person, stranger_index)),
                            stranger_index + 1)
             ELSE GroupFrom(ds, i + 1, grouped, stranger_index)

group_by_person(global_event) ==
    GroupFrom(EventDetections(global_event.clips), 1, <<>>, 0)

Tables == [persons |-> persons, event_logs |-> event_logs,
           event_appearances |-> event_appearances]

InitStore ==
    /\ persons = <<>> /\ person_faces = {}
    /\ call = NoCall /\ result = NoResult
    /\ IdleWorkers /\ IdleFusion /\ IdleStore /\ IdleMore

StoreKeeps == UNCHANGED <<call, result, workerVars, fusionVars, moreVars>>

RECURSIVE RegisterFrom_NoLookup(_, _, _)
RegisterFrom_NoLookup(img_ids, ps, faces) ==
    IF img_ids = {} THEN [persons |-> ps, person_faces |-> faces]
    ELSE LET img_id == MinOf(img_ids)
             ps2    == Append(ps, PersonRow(PersonName("Family", img_id, None),
                                            "owner", None, None))
         IN  RegisterFrom_NoLookup(img_ids \ {img_id}, ps2,
                faces \cup {[person_id |-> Len(ps2), embedding |-> img_id,
                             source_image |-> img_id]})

\* RegistryManager.register_family over one lib_dict, in one transaction.
RECURSIVE RegisterFrom(_, _, _)
RegisterFrom(img_ids, ps, faces) ==
    IF img_ids = {} THEN [persons |-> ps, person_faces |-> faces]
    ELSE LET img_id   == MinOf(img_ids)
             name     == PersonName("Family", img_id, None)
             existing == {id \in DOMAIN ps : ps[id].name = name /\ ps[id].role = "owner"}
             ps2      == IF existing # {} THEN ps
                         ELSE Append(ps, PersonRow(name, "owner", None, None))
             person_id == IF existing # {} THEN MinOf(existing) ELSE Len(ps2)
             source_image == img_id
             faces2   == IF \E f \in faces : f.person_id = person_id
                                             /\ f.source_image = source_image
                         THEN faces
                         ELSE faces \cup {[person_id |-> person_id, embedding |-> img_id,
                                           source_image |-> source_image]}
         IN  RegisterFrom(img_ids \ {img_id}, ps2, faces2)

register_family(lib_dict) ==
    /\ job.pc = "idle"
    /\ lib_dict # {}
    /\ LET r == RegisterFrom(lib_dict, persons, person_faces) IN
        /\ Len(r.persons) <= MaxPersons
        /\ persons' = r.persons
        /\ person_faces' = r.person_faces
    /\ saved' = NoSaved
    /\ enrolment' = [done |-> TRUE, lib_dict |-> lib_dict,
                     rerun |-> enrolment.done /\ enrolment.lib_dict = lib_dict,
                     before |-> [persons |-> Len(persons),
                                 person_faces |-> Cardinality(person_faces)]]
    /\ UNCHANGED <<event_logs, event_appearances, tx, job>>
    /\ StoreKeeps

\* Phases 2 and 3 hand one Global_Event to save_events: a one-clip event of
\* Person 1 and strangers, packed and refined, summarised and with its
\* roles inferred.
ProcessEvents ==
    /\ job.pc = "idle"
    /\ Len(persons) >= 1
    /\ Len(persons) + 2 <= MaxPersons
    /\ Len(event_logs) < MaxStoredEvents
    /\ \E people \in StorePeople(ArbiterRole(persons[1].role)),
          raw_response \in Descriptions :
        LET clips == <<[time |-> 100, cam |-> "doorbell", has_fields |-> TRUE,
                        people_detected |-> <<people>>]>>
            refined == refine_event_identities(pack(clips))
            global_event == refined @@
                            [people_info  |-> _reaggregate_people_info(refined.clips),
                             summary_text |-> ""]
        IN  job' = [pc |-> "begin", event |-> process_events(global_event, raw_response),
                    input |-> clips, before |-> Tables, event_id |-> None, keys |-> <<>>,
                    grouped |-> <<>>, idx |-> 0, appearances |-> <<>>, failed |-> {}]
    /\ saved' = NoSaved
    /\ enrolment' = NoEnrolment
    /\ UNCHANGED <<persons, person_faces, event_logs, event_appearances, tx>>
    /\ StoreKeeps

\* save_event returns: the connection is closed.
Return(returned, failed) ==
    /\ saved' = [done |-> TRUE, returned |-> returned, failed |-> failed,
                 before |-> job.before, event |-> job.event, input |-> job.input]
    /\ job' = NoJob
    /\ tx' = NoTx

\* except: conn.rollback(); raise -- save_event returns None.
Rollback(failed) ==
    /\ Return(None, failed)
    /\ UNCHANGED <<persons, event_logs, event_appearances>>

\* tx_manager.begin(), EventDAO.insert_event, group_by_person.
SaveBegin ==
    /\ job.pc = "begin"
    /\ \E connect_ok, sql_ok \in BOOLEAN :
        IF ~connect_ok THEN Rollback({"connect"})
        ELSE IF ~sql_ok THEN Rollback({"insert_event"})
        ELSE LET event_id == Len(event_logs) + 1
                 row == [id |-> event_id, start_time |-> job.event.start_time,
                         camera_location |-> job.event.cameras,
                         llm_description |-> job.event.summary_text]
                 grouped == group_by_person(job.event)
             IN  /\ tx' = [open |-> TRUE, aborted |-> FALSE, persons |-> persons,
                           event_logs |-> Append(event_logs, row),
                           event_appearances |-> event_appearances]
                 /\ job' = [job EXCEPT
                        !.event_id = event_id,
                        !.grouped = grouped,
                        !.keys = [g \in DOMAIN grouped |-> grouped[g].key],
                        !.idx = 1,
                        !.pc = IF grouped = <<>> THEN "commit" ELSE "strangers"]
                 /\ UNCHANGED <<persons, event_logs, event_appearances, saved>>
    /\ UNCHANGED person_faces
    /\ StoreKeeps /\ UNCHANGED enrolment

\* The INSERT of a stranger Person on transaction t.  A statement that
\* fails leaves the transaction aborted, and every statement of an aborted
\* transaction fails.
_get_or_create_stranger_person(t, detection_list, global_event, key, sql_ok) ==
    LET best_detection == select_best(detection_list)
        body_embedding == best_detection.body_embedding
        people_info    == global_event.people_info
        inferred_role  == IF -1 \in DOMAIN people_info
                          THEN _map_role_to_db(people_info[-1].role)
                          ELSE "unknown"
        event_time     == global_event.start_time
        stranger_name  == PersonName("Stranger", key[2], event_time)
    IN  IF body_embedding = NoVec
        THEN [tx |-> t, person_id |-> None, failed |-> {}]
        ELSE IF ~to_pgvector_body(body_embedding).ok
        THEN [tx |-> t, person_id |-> None, failed |-> {"stranger_vector"}]
        ELSE IF t.aborted \/ ~sql_ok
        THEN [tx |-> [t EXCEPT !.aborted = TRUE], person_id |-> None,
              failed |-> {"stranger_insert"}]
        ELSE [tx |-> [t EXCEPT !.persons = Append(@,
                        PersonRow(stranger_name, inferred_role,
                                  to_pgvector_body(body_embedding).str, event_time))],
              person_id |-> Len(t.persons) + 1, failed |-> {}]

\* for person_key in list(grouped_detections.keys()): one key.
SaveStranger ==
    /\ job.pc = "strangers"
    /\ LET person_key == job.keys[job.idx]
           g == CHOOSE g \in DOMAIN job.grouped : job.grouped[g].key = person_key
           others == SelectSeq(job.grouped, LAMBDA x : x.key # person_key)
       IN  \E sql_ok \in BOOLEAN :
            LET r == IF person_key[1] = "person"
                     THEN [tx |-> tx, person_id |-> None, failed |-> {}]
                     ELSE _get_or_create_stranger_person(
                            tx, job.grouped[g].detections, job.event, person_key, sql_ok)
                grouped == IF person_key[1] = "person" THEN job.grouped
                           ELSE IF r.person_id # None
                           THEN Append(others, [key |-> <<"person", r.person_id>>,
                                                detections |-> job.grouped[g].detections])
                           ELSE others
                last == job.idx = Len(job.keys)
            IN  /\ tx' = r.tx
                /\ job' = [job EXCEPT
                        !.grouped = grouped,
                        !.failed = @ \cup r.failed,
                        !.idx = IF last THEN 1 ELSE @ + 1,
                        !.pc = IF ~last THEN "strangers"
                               ELSE IF grouped = <<>> THEN "commit" ELSE "groups"]
    /\ UNCHANGED <<persons, person_faces, event_logs, event_appearances, saved>>
    /\ StoreKeeps /\ UNCHANGED enrolment

\* Mutant: the refined methods have no name of their own in the store.
match_method_Unrefined(method) ==
    CASE method = "face" -> "face"
      [] method = "body" -> "body_reid"
      [] method = "new"  -> "new"
      [] OTHER -> "unknown"

match_method(method) ==
    CASE method = "face" -> "face"
      [] method = "body" -> "body_reid"
      [] method = "new"  -> "new"
      [] method \in {"refined_from_suspected", "refined_from_stranger",
                     "refined_from_context"} -> "body_reid_refined"
      [] OTHER -> "unknown"

\* UPDATE persons SET role = db_role, last_seen = start_time,
\*   notes = COALESCE(notes || ' ', '') || '[... inferred_role]' WHERE id
UpdateRole(ps, person_id, inferred_role, start_time) ==
    [ps EXCEPT ![person_id] =
        [@ EXCEPT !.role = _map_role_to_db(inferred_role),
                  !.last_seen = start_time,
                  !.notes = Append(@, inferred_role)]]

\* for person_id, detection_list in grouped_detections.items(): one group.
SaveGroup ==
    /\ job.pc = "groups"
    /\ LET person_id == job.grouped[job.idx].key[2]
           best_detection == select_best(job.grouped[job.idx].detections)
           body_embedding == best_detection.body_embedding
           people_info == job.event.people_info
           updates == /\ person_id \in DOMAIN people_info
                      /\ people_info[person_id].role_source = "behavior_inference"
           skipped == body_embedding = NoVec \/ ~to_pgvector_body(body_embedding).ok
           last == job.idx = Len(job.grouped)
       IN  \E sql_ok \in BOOLEAN :
            LET t == IF skipped \/ ~updates THEN tx
                     ELSE IF tx.aborted \/ ~sql_ok THEN [tx EXCEPT !.aborted = TRUE]
                     ELSE [tx EXCEPT !.persons =
                            UpdateRole(@, person_id, people_info[person_id].role,
                                       job.event.start_time)]
                failed == IF skipped
                          THEN (IF body_embedding = NoVec THEN {} ELSE {"appearance_vector"})
                          ELSE IF updates /\ (tx.aborted \/ ~sql_ok) THEN {"role_update"}
                          ELSE {}
                appearances ==
                    IF skipped THEN job.appearances
                    ELSE Append(job.appearances,
                            [event_id |-> job.event_id, person_id |-> person_id,
                             match_method |-> match_method(best_detection.method),
                             body_embedding |-> to_pgvector_body(body_embedding).str])
            IN  /\ tx' = t
                /\ job' = [job EXCEPT
                        !.appearances = appearances,
                        !.failed = @ \cup failed,
                        !.idx = IF last THEN 1 ELSE @ + 1,
                        !.pc = IF ~last THEN "groups"
                               ELSE IF appearances = <<>> THEN "commit" ELSE "insert"]
    /\ UNCHANGED <<persons, person_faces, event_logs, event_appearances, saved>>
    /\ StoreKeeps /\ UNCHANGED enrolment

\* AppearanceDAO.batch_insert_appearances: one INSERT; its failure leaves
\* the with block by the exception.
SaveInsertAppearance ==
    /\ job.pc = "insert"
    /\ \E sql_ok \in BOOLEAN :
        IF tx.aborted \/ ~sql_ok
        THEN Rollback(job.failed \cup {"appearance_insert"})
        ELSE /\ tx' = [tx EXCEPT !.event_appearances =
                            Append(@, job.appearances[job.idx])]
             /\ job' = [job EXCEPT
                    !.idx = IF job.idx = Len(job.appearances) THEN 1 ELSE @ + 1,
                    !.pc = IF job.idx = Len(job.appearances) THEN "commit" ELSE "insert"]
             /\ UNCHANGED <<persons, event_logs, event_appearances, saved>>
    /\ UNCHANGED person_faces
    /\ StoreKeeps /\ UNCHANGED enrolment

\* conn.commit() at the end of the with block.  COMMIT of an aborted
\* transaction rolls it back and raises nothing: save_event returns
\* event_id all the same.
SaveCommit ==
    /\ job.pc = "commit"
    /\ \E commit_ok \in BOOLEAN :
        IF tx.aborted
        THEN /\ Return(job.event_id, job.failed)
             /\ UNCHANGED <<persons, event_logs, event_appearances>>
        ELSE IF ~commit_ok THEN Rollback(job.failed \cup {"commit"})
        ELSE /\ Return(job.event_id, job.failed)
             /\ persons' = tx.persons
             /\ event_logs' = tx.event_logs
             /\ event_appearances' = tx.event_appearances
    /\ UNCHANGED person_faces
    /\ StoreKeeps /\ UNCHANGED enrolment

NextStore ==
    \/ \E lib_dict \in {{1}, {1, 2}} : register_family(lib_dict)
    \/ ProcessEvents
    \/ SaveBegin
    \/ SaveStranger
    \/ SaveGroup
    \/ SaveInsertAppearance
    \/ SaveCommit

SpecStore == InitStore /\ [][NextStore]_vars

----------------------------------------------------------------------------
(* Claims about the store, checked under SpecStore *)

HasFace(id) == \E f \in person_faces : f.person_id = id

\* C6: in every reachable store state (after enrolment, after event
\* persistence with its stranger Persons, after behaviour-driven role
\* updates) every Person whose role is owner has at least one PersonFace.
C6_EveryOwnerHasFace ==
    \A id \in DOMAIN persons : persons[id].role = "owner" => HasFace(id)

\* The steps of save_event that the transaction covers.
StepFailures ==
    {"insert_event", "stranger_vector", "stranger_insert", "role_update",
     "appearance_insert"}

\* C7: persisting an event is all-or-nothing: when a step inside the
\* event's transaction has failed (StoredEvent insert, stranger Person
\* upsert, Person role UPDATE, a StoredAppearance insert), nothing of the
\* event is visible afterwards: the tables are as before save_event.
C7_AllOrNothing ==
    (saved.done /\ saved.failed \cap StepFailures # {}) => Tables = saved.before

\* The event of the last save_event is stored.
EventStored ==
    /\ saved.done /\ saved.returned # None
    /\ Len(event_logs) > Len(saved.before.event_logs)

AppearancesOf(event_id) ==
    {i \in DOMAIN event_appearances : event_appearances[i].event_id = event_id}

\* The persons of an event whose representative (select_best) detection
\* carries a body embedding: the known person ids, and the stranger buckets
\* that the upsert has given a person id.
WithBodyEmbedding(global_event) ==
    LET grouped == group_by_person(global_event) IN
    {g \in DOMAIN grouped :
        LET body_embedding == select_best(grouped[g].detections).body_embedding IN
        /\ body_embedding # NoVec
        /\ grouped[g].key[1] = "person" \/ to_pgvector_body(body_embedding).ok}

\* C14: for every StoredEvent, the number of its StoredAppearances equals
\* the number of distinct resolved person ids of the event (stranger
\* buckets counted after the upsert) whose representative detection
\* carries a body embedding.
C14_AppearancePerPersonWithBody ==
    EventStored =>
        Cardinality(AppearancesOf(saved.returned))
            = Cardinality(WithBodyEmbedding(saved.event))

\* The persons of the store whose event role behaviour inference changed.
RoleChangedBy(global_event, sources) ==
    {p \in DOMAIN global_event.people_info \cap DOMAIN saved.before.persons :
        global_event.people_info[p].role_source \in sources}

RoleUpdated(p) ==
    /\ persons[p].role = _map_role_to_db(saved.event.people_info[p].role)
    /\ persons[p].notes
          = Append(saved.before.persons[p].notes, saved.event.people_info[p].role)

\* C36: whenever behaviour inference changed the event role of a person
\* who already exists in the store, persisting that event updates that
\* Person row's role to the mapped storage value and appends a note.
C36_RoleUpdatePersisted ==
    EventStored =>
        \A p \in RoleChangedBy(saved.event, {"behavior_inference", "behavior_override"}) :
            RoleUpdated(p)

\* What the code does keep: a role marked "behavior_inference" is written
\* to the Person row, with its note, when the person's group got its
\* appearance row.
RoleUpdatePersistedWithAppearance ==
    EventStored =>
        \A p \in RoleChangedBy(saved.event, {"behavior_inference"}) :
            (\E i \in Len(saved.before.event_appearances) + 1 .. Len(event_appearances) :
                event_appearances[i].person_id = p)
            => RoleUpdated(p)

\* A stored event whose behaviour-inferred role reached the Person row.
RoleUpdateStored ==
    /\ EventStored
    /\ \E p \in RoleChangedBy(saved.event, {"behavior_inference"}) :
         /\ RoleUpdated(p)
         /\ persons[p].role # saved.before.persons[p].role

\* How many times a detection occurs in a list of detections.
Occurrences(person, ds) == Cardinality({i \in DOMAIN ds : ds[i] = person})

RECURSIVE OccurrencesInGroups(_, _, _)
OccurrencesInGroups(person, grouped, g) ==
    IF g > Len(grouped) THEN 0
    ELSE Occurrences(person, grouped[g].detections)
         + OccurrencesInGroups(person, grouped, g + 1)

\* C37: no detection is lost at persistence grouping: every detection in
\* a persisted event's clips belongs to exactly one person group (keyed by
\* person id or by stranger-bucket key), including detections the refiner
\* re-marked as suspected_family that carry no person id.
C37_NoDetectionLostAtGrouping ==
    EventStored =>
        LET ds == EventDetections(saved.event.clips) IN
        \A i \in DOMAIN ds :
            OccurrencesInGroups(ds[i], group_by_person(saved.event), 1)
                = Occurrences(ds[i], ds)

\* What the code does keep: every detection with a person id, and every
\* detection without one whose role is still stranger, is in one group.
DetectionsWithKeyGrouped ==
    EventStored =>
        LET ds == EventDetections(saved.event.clips) IN
        \A i \in DOMAIN ds :
            (ds[i].person_id # None \/ ds[i].role = "stranger") =>
                OccurrencesInGroups(ds[i], group_by_person(saved.event), 1)
                    = Occurrences(ds[i], ds)

\* A stored event with a family detection and three stranger detections,
\* which the refiner re-marked.
RemarkedStrangersStored ==
    /\ EventStored
    /\ LET ds == EventDetections(saved.event.clips) IN
       /\ \E i \in DOMAIN ds : ds[i].method = "refined_from_stranger"
       /\ \E i \in DOMAIN ds : ds[i].method = "face"

\* Failures of to_pgvector_body on a body vector of a wrong dimension.
VectorFailures == {"stranger_vector", "appearance_vector"}

\* C15: a programming-invariant violation while persisting an event (a
\* body vector of a wrong dimension, an unknown enum value) fails that
\* whole event: save_event reports failure and no StoredEvent is committed
\* for it; persistence goes on with the next event.
C15_InvariantViolationFailsEvent ==
    (saved.done /\ saved.failed \cap VectorFailures # {}) =>
        /\ saved.returned = None
        /\ event_logs = saved.before.event_logs

\* The accepted summary of the event in hand holds a strong cue pattern
\* (the validator's fallback texts hold none).
AcceptedSummaryStrong ==
    \E d \in Descriptions : d.text = job.event.summary_text /\ d.strong

\* C16: behaviour inference changes the event role of a person resolved as
\* family to a non-family role (visitor, delivery, service) only when the
\* accepted summary contains a strong cue pattern; without a strong cue
\* the role stays family.
C16_FamilyOverrideNeedsStrongCue ==
    job.pc # "idle" =>
        \A k \in DOMAIN job.event.people_info \ {-1} :
            (/\ _reaggregate_people_info(job.event.clips)[k].role = "family"
             /\ job.event.people_info[k].role \in {"visitor", "delivery", "service"})
                => AcceptedSummaryStrong

\* The detections of person_id that phase 1 handed over with a role (or
\* with one of some methods).
InputWithRole(person_id, role) ==
    LET ds == EventDetections(saved.input) IN
    {i \in DOMAIN ds : ds[i].person_id = person_id /\ ds[i].role = role}

InputWithMethod(person_id, methods) ==
    LET ds == EventDetections(saved.input) IN
    {i \in DOMAIN ds : ds[i].person_id = person_id /\ ds[i].method \in methods}

StoredAsRefined(person_id) ==
    /\ \E i \in AppearancesOf(saved.returned) :
            event_appearances[i].person_id = person_id
    /\ \A i \in AppearancesOf(saved.returned) :
            event_appearances[i].person_id = person_id
                => event_appearances[i].match_method = "body_reid_refined"

\* C18 as stated: if an event's clips contain 3 suspected_family
\* detections of the same person id, then after the Identity Refiner and
\* the Persister have run, the StoredAppearance of that person for that
\* event has match_method body_reid_refined.
C18_ThreeSuspectedStoredRefined ==
    EventStored =>
        \A person_id \in DOMAIN saved.before.persons :
            Cardinality(InputWithRole(person_id, "suspected_family")) >= 3
                => StoredAsRefined(person_id)

\* C18 amended: the same, for a person of whom the event holds no detection
\* resolved by face or by body (such a detection outscores the refined
\* ones as the representative and gives the appearance its method).
C18_OnlySuspectedStoredRefined ==
    EventStored =>
        \A person_id \in DOMAIN saved.before.persons :
            (/\ Cardinality(InputWithRole(person_id, "suspected_family")) >= 3
             /\ InputWithMethod(person_id, {"face", "body"}) = {})
                => StoredAsRefined(person_id)

C18_Witness ==
    /\ EventStored
    /\ Cardinality(InputWithRole(1, "suspected_family")) >= 3
    /\ InputWithMethod(1, {"face", "body"}) = {}
    /\ StoredAsRefined(1)

\* The event handed over holds strangers only, all with the body vector
\* of one hash.
OnlyStrangersOfOneHash ==
    LET ds == EventDetections(saved.input) IN
    /\ ds # <<>>
    /\ \A i \in DOMAIN ds :
        /\ ds[i].person_id = None /\ ds[i].role = "stranger"
        /\ ds[i].body_embedding # NoVec
        /\ _generate_stranger_key(ds[i], 0) = _generate_stranger_key(ds[1], 0)

NewPersons == (DOMAIN persons) \ (DOMAIN saved.before.persons)

\* C19: persisting an event whose detections are all strangers sharing
\* one body hash creates exactly one new Person row, whose role is unknown
\* or (when behaviour-inferred) visitor, and exactly one StoredAppearance
\* referencing that Person.
C19_OneStrangerPersonAndAppearance ==
    (EventStored /\ OnlyStrangersOfOneHash) =>
        /\ Cardinality(NewPersons) = 1
        /\ \A id \in NewPersons : persons[id].role \in {"unknown", "visitor"}
        /\ Cardinality(AppearancesOf(saved.returned)) = 1
        /\ \A i \in AppearancesOf(saved.returned) :
                event_appearances[i].person_id \in NewPersons

\* The stranger buckets of the last event whose Person name was in the
\* store before save_event.
RerunBuckets ==
    LET grouped == group_by_person(saved.event) IN
    {g \in DOMAIN grouped :
        /\ grouped[g].key[1] # "person"
        /\ \E id \in DOMAIN saved.before.persons :
            saved.before.persons[id].name
                = PersonName("Stranger", grouped[g].key[2], saved.event.start_time)}

\* C20: the stranger Person write is an upsert keyed on the Person name
\* and tolerates re-runs: persisting a stranger bucket whose name
\* Stranger_<yyyymmdd_HHMMSS>_<keysuffix> already exists in the store does
\* not create a second Person row with that name and does not make the
\* event fail.
C20_StrangerUpsertByName ==
    (saved.done /\ RerunBuckets # {} /\ saved.failed = {}) =>
        /\ EventStored
        /\ \A i, j \in DOMAIN persons :
            (persons[i].name.kind = "Stranger" /\ persons[i].name = persons[j].name)
                => i = j

\* The event phase 3 has handed over, and the stranger buckets its
\* detections fall into.
HandedOver == job.pc = "begin"
StrangerBuckets(global_event) ==
    LET grouped == group_by_person(global_event) IN
    {g \in DOMAIN grouped : grouped[g].key[1] # "person"}
OnlyUnresolvedStrangers(clips) ==
    LET ds == EventDetections(clips) IN
    /\ ds # <<>>
    /\ \A i \in DOMAIN ds : ds[i].person_id = None /\ ds[i].role = "stranger"
ShortCircuited(global_event) ==
    /\ global_event.summary_text = "nobody appears"
    /\ \A k \in DOMAIN global_event.people_info :
            global_event.people_info[k].role_source = NoSource

\* C25: phase 3 skips the LLM call and sets the fixed summary ("nobody
\* appears in this video") if and only if the event has no known person and
\* no stranger bucket; an event whose detections after refinement are all
\* unresolved strangers keeps its stranger mark -1 and is not
\* short-circuited.
C25_ShortCircuitIffNobody ==
    HandedOver =>
        /\ ShortCircuited(job.event) <=>
                (/\ PeopleIds(job.event.clips) = {}
                 /\ StrangerBuckets(job.event) = {})
        /\ OnlyUnresolvedStrangers(job.event.clips)
           => (-1 \in DOMAIN job.event.people_info
               /\ job.event.summary_text # "nobody appears")

\* A stranger-only event went to the LLM and has its summary.
C25_Witness ==
    /\ HandedOver
    /\ OnlyUnresolvedStrangers(job.event.clips)
    /\ job.event.summary_text \notin {"", "nobody appears"}

\* The library photos of lib_dict were enrolled before: each has its
\* person_faces row (rows are never deleted).
AlreadyEnrolled(lib_dict) ==
    \A img_id \in lib_dict : \E f \in person_faces : f.source_image = img_id

\* C21: enrolment is idempotent: register_family run a second time on the
\* same directory (its lib_dict), right after the first run, leaves the
\* number of Person rows and the number of PersonFace rows unchanged.
C21_EnrollTwiceSameCounts ==
    (enrolment.done /\ enrolment.rerun) =>
        /\ Len(persons) = enrolment.before.persons
        /\ Cardinality(person_faces) = enrolment.before.person_faces

\* 1.jpeg and 2.jpeg were enrolled twice in a row.
C21_Witness ==
    /\ enrolment.done /\ enrolment.rerun /\ enrolment.lib_dict = {1, 2}
    /\ Len(persons) = 2 /\ Cardinality(person_faces) = 2

\* register_family(lib_dict) leaves both row counts as they are.
EnrolAddsNoRows(lib_dict) ==
    register_family(lib_dict) =>
        /\ Len(persons') = Len(persons)
        /\ Cardinality(person_faces') = Cardinality(person_faces)

\* C38: enrolment stays idempotent across pipeline runs: re-running
\* register_family on an enrolled directory after events have been
\* persisted, including after a behaviour-driven role update of an enrolled
\* person, creates no additional Person row and no additional PersonFace
\* row.
C38_ReEnrolAfterEventsAddsNoRows ==
    [][\A lib_dict \in {{1}, {1, 2}} :
        (AlreadyEnrolled(lib_dict) /\ event_logs # <<>>) => EnrolAddsNoRows(lib_dict)]_vars

\* What the code does keep: while every enrolled row still has role owner
\* the re-run adds nothing.
ReEnrolOfOwnersAddsNoRows ==
    [][\A lib_dict \in {{1}, {1, 2}} :
        (/\ AlreadyEnrolled(lib_dict) /\ event_logs # <<>>
         /\ \A id \in DOMAIN persons :
               persons[id].name.kind = "Family" => persons[id].role = "owner")
        => EnrolAddsNoRows(lib_dict)]_vars

\* An enrolled directory was enrolled again after an event was stored.
ReEnrolledAfterEvents ==
    /\ enrolment.done /\ event_logs # <<>>
    /\ enrolment.before.person_faces >= Cardinality(enrolment.lib_dict)

----------------------------------------------------------------------------
(* Persistence_Pipeline._map_role_to_db as a function of the inferred role  *)
(* (SpecRoleMap): the roles of the persons of an event are mapped one by    *)
(* one.                                                                     *)

MaxRoles == 3

\* The seven roles the pipeline knows, and two values it does not.
KnownRoles == {"owner", "family", "visitor", "delivery", "service", "stranger", "unknown"}
RoleValues == KnownRoles \cup {"suspected_family", "guest"}

InitRoleMap ==
    /\ inferred_roles \in SeqsUpTo(RoleValues, MaxRoles)
    /\ db_roles = <<>>
    /\ persons = <<>> /\ person_faces = {} /\ call = NoCall /\ result = NoResult
    /\ IdleWorkers /\ IdleFusion /\ IdleStore /\ IdlePolicy /\ IdleScanner
    /\ IdleLater

\* db_role = self._map_role_to_db(inferred_role)
MapRoleToDb ==
    /\ inferred_roles # <<>>
    /\ db_roles' = Append(db_roles, [inferred_role |-> Head(inferred_roles),
                                     db_role |-> _map_role_to_db(Head(inferred_roles))])
    /\ inferred_roles' = Tail(inferred_roles)
    /\ UNCHANGED <<arbiterVars, workerVars, fusionVars, storeVars, policyVars, scannerVars,
                   laterVars>>

NextRoleMap == MapRoleToDb

SpecRoleMap == InitRoleMap /\ [][NextRoleMap]_vars

\* C17: every role written to a Person row is obtained by the mapping
\* {owner, family} -> owner, {visitor, delivery, service} -> visitor,
\* {stranger, unknown} -> unknown, and a role value outside these seven is
\* rejected rather than stored (no role comes back for it).
C17_MappingOrRejected ==
    \A i \in DOMAIN db_roles :
        LET r == db_roles[i] IN
        /\ r.inferred_role \in {"owner", "family"} => r.db_role = "owner"
        /\ r.inferred_role \in {"visitor", "delivery", "service"} => r.db_role = "visitor"
        /\ r.inferred_role \in {"stranger", "unknown"} => r.db_role = "unknown"
        /\ r.inferred_role \notin KnownRoles =>
                r.db_role \notin {"owner", "visitor", "unknown"}

----------------------------------------------------------------------------
(* Phase 5: Daily_Summary_Pipeline.run_for_date on the tables event_logs    *)
(* and daily_summaries (SpecSummary).  Dates are day numbers.               *)

\* seconds of a day: DATE(start_time) of a time in seconds
DaySeconds == 86400
MaxSummaryEvents == 3
MaxClock == 4

DATE(start_time) == start_time \div DaySeconds

SummaryDates == {0, 1}
SummaryStartTimes == {100, 200, DaySeconds + 100}
\* What InsightEngine.analyze returns: the stripped text of the LLM or,
\* when the gateway raised, the fallback text.
SummaryTexts == {"narrative", "fallback"}

\* QueryEngine.fetch_events: the rows of the date (run_for_date uses their
\* number; their order only shapes the prompt).
fetch_events(logs, target_date) ==
    SelectSeq(logs, LAMBDA e : DATE(e.start_time) = target_date)

get_summary_Missing(table, summary_date) == {}

\* ArchivePersister.get_summary: the row of the date, if any.
get_summary(table, summary_date) ==
    {r \in table : r.summary_date = summary_date}

save_KeepsTotal(table, summary_date, summary_text, total_events, ts) ==
    LET old == {r \in table : r.summary_date = summary_date} IN
    IF old = {}
    THEN table \cup {[id |-> Cardinality(table) + 1, summary_date |-> summary_date,
                      summary_text |-> summary_text, total_events |-> total_events,
                      created_at |-> ts, updated_at |-> ts]}
    ELSE {IF r \in old THEN [r EXCEPT !.summary_text = summary_text, !.updated_at = ts]
          ELSE r : r \in table}

\* ArchivePersister.save: INSERT ... ON CONFLICT (summary_date) DO UPDATE,
\* at CURRENT_TIMESTAMP ts.  Rows are never deleted, so the number of rows
\* gives a fresh id.
save(table, summary_date, summary_text, total_events, ts) ==
    LET old == {r \in table : r.summary_date = summary_date} IN
    IF old = {}
    THEN table \cup {[id |-> Cardinality(table) + 1, summary_date |-> summary_date,
                      summary_text |-> summary_text, total_events |-> total_events,
                      created_at |-> ts, updated_at |-> ts]}
    ELSE {IF r \in old
          THEN [r EXCEPT !.summary_text = summary_text,
                         !.total_events = total_events, !.updated_at = ts]
          ELSE r : r \in table}

InitSummary ==
    /\ persons = <<>> /\ person_faces = {} /\ call = NoCall /\ result = NoResult
    /\ IdleWorkers /\ IdleFusion /\ IdleStore /\ IdlePolicy /\ IdleScanner
    /\ IdleRoleMap /\ IdleLater

SummaryKeeps ==
    UNCHANGED <<arbiterVars, workerVars, fusionVars, policyVars, scannerVars,
                roleMapVars, event_appearances, tx, job, saved, enrolment,
                gatewayVars, answerVars, refinerVars, validatorVars>>

\* A committed save_event as phase 5 sees it: one more row of event_logs.
InsertEvent ==
    /\ Len(event_logs) < MaxSummaryEvents
    /\ \E start_time \in SummaryStartTimes :
        event_logs' = Append(event_logs,
            [id |-> Len(event_logs) + 1, start_time |-> start_time,
             camera_location |-> {"doorbell"}, llm_description |-> "event"])
    /\ summary_run' = NoRun
    /\ UNCHANGED <<daily_summaries, clock>>
    /\ SummaryKeeps

\* Daily_Summary_Pipeline.run_for_date.  Each query may fail with
\* psycopg2.Error, which run_for_date does not catch.
run_for_date(target_date, force_update) ==
    /\ clock < MaxClock
    /\ clock' = clock + 1
    /\ \E get_ok, fetch_ok, save_ok \in BOOLEAN, summary_text \in SummaryTexts :
        LET existing_summary == get_summary(daily_summaries, target_date)
            events == fetch_events(event_logs, target_date)
            call_of(outcome, record_id) ==
                [done |-> TRUE, target_date |-> target_date,
                 force_update |-> force_update, before |-> daily_summaries,
                 outcome |-> outcome, record_id |-> record_id]
            raised == /\ summary_run' = call_of("raised", None)
                      /\ UNCHANGED daily_summaries
        IN  IF ~force_update /\ ~get_ok THEN raised
            ELSE IF ~force_update /\ existing_summary # {}
            THEN /\ summary_run' =
                        call_of("returned", (CHOOSE r \in existing_summary : TRUE).id)
                 /\ UNCHANGED daily_summaries
            ELSE IF ~fetch_ok THEN raised
            ELSE IF events = <<>>
            THEN /\ summary_run' = call_of("returned", None)
                 /\ UNCHANGED daily_summaries
            ELSE IF ~save_ok THEN raised
            ELSE LET table == save(daily_summaries, target_date, summary_text,
                                   Len(events), clock')
                 IN  /\ daily_summaries' = table
                     /\ summary_run' = call_of("returned",
                            (CHOOSE r \in table : r.summary_date = target_date).id)
    /\ UNCHANGED event_logs
    /\ SummaryKeeps

NextSummary ==
    \/ InsertEvent
    \/ \E target_date \in SummaryDates, force_update \in BOOLEAN :
        run_for_date(target_date, force_update)

SpecSummary == InitSummary /\ [][NextSummary]_vars

\* The StoredEvents whose start_time falls on the date.
EventsOn(summary_date) ==
    {i \in DOMAIN event_logs : DATE(event_logs[i].start_time) = summary_date}

\* C22: run_for_date with force_update = False on a date that already has
\* its daily_summaries row leaves the table as it was: still exactly one
\* row of that date, with the same summary_text, total_events and
\* updated_at.
C22_NoForceKeepsRow ==
    (/\ summary_run.done /\ ~summary_run.force_update
     /\ \E r \in summary_run.before : r.summary_date = summary_run.target_date)
    => /\ daily_summaries = summary_run.before
       /\ Cardinality({r \in daily_summaries :
                          r.summary_date = summary_run.target_date}) = 1

\* The row of the date is out of date (an event was stored since) and the
\* run without force returned its id.
C22_Witness ==
    /\ summary_run.done /\ ~summary_run.force_update
    /\ summary_run.outcome = "returned"
    /\ \E r \in daily_summaries :
        /\ r.summary_date = summary_run.target_date
        /\ r.id = summary_run.record_id
        /\ r.total_events < Cardinality(EventsOn(r.summary_date))

\* C23: after run_for_date with force_update = True has returned, the
\* daily_summaries row of the date has total_events equal to the number of
\* event_logs rows whose start_time falls on that date, whatever the row
\* held before.
C23_ForceCountsEvents ==
    (/\ summary_run.done /\ summary_run.force_update
     /\ summary_run.outcome = "returned")
    => \A r \in daily_summaries :
        r.summary_date = summary_run.target_date
            => r.total_events = Cardinality(EventsOn(r.summary_date))

\* The forced run replaced a row that held another count.
C23_Witness ==
    /\ summary_run.done /\ summary_run.force_update
    /\ summary_run.outcome = "returned"
    /\ \E r \in daily_summaries, old \in summary_run.before :
        /\ r.summary_date = summary_run.target_date
        /\ old.summary_date = r.summary_date
        /\ old.total_events # r.total_events
        /\ r.total_events = Cardinality(EventsOn(r.summary_date))

----------------------------------------------------------------------------
(* LLMGateway.generate under tenacity's @retry (SpecGateway): attempts,     *)
(* waits and the way the call ends.  An attempt is one execution of the     *)
(* body of generate; it returns the text, returns "" or raises.             *)

\* stop_after_attempt(3)
max_attempt_number == 3
\* wait_exponential(multiplier=1, min=2, max=10)
wait_multiplier == 1
wait_min == 2
wait_max == 10
MaxGatewayCalls == 4

GatewayCallers == {"llm_reasoning_pipeline", "insight_engine", "rag_synthesis_engine"}
AttemptOutcomes == {"text", "empty", "raise"}

stop_after_attempt_Never(n) == FALSE

\* stop=stop_after_attempt(3): no attempt after the third
stop_after_attempt(n) == n >= max_attempt_number

Max2(a, b) == IF a >= b THEN a ELSE b
Min2(a, b) == IF a <= b THEN a ELSE b

\* wait=wait_exponential(...): multiplier * 2 ^ (attempt_number - 1),
\* clamped to [min, max]
wait_exponential(n) ==
    Max2(Max2(0, wait_min), Min2(wait_multiplier * 2 ^ (n - 1), wait_max))

InitGateway ==
    /\ persons = <<>> /\ person_faces = {} /\ call = NoCall /\ result = NoResult
    /\ IdleWorkers /\ IdleFusion /\ IdleStore /\ IdlePolicy /\ IdleScanner
    /\ IdleRoleMap /\ IdleLater

GatewayKeeps ==
    UNCHANGED <<arbiterVars, workerVars, fusionVars, storeVars, policyVars,
                scannerVars, roleMapVars, summaryVars, answerVars, refinerVars,
                validatorVars>>

\* self.llm_gateway.generate(system_prompt, user_prompt)
GatewayCall ==
    /\ gw_pc \in {"idle", "returned", "raised"}
    /\ gw_calls < MaxGatewayCalls
    /\ \E caller \in GatewayCallers : gw_caller' = caller
    /\ gw_pc' = "attempt"
    /\ attempt_number' = 1
    /\ gw_outcomes' = <<>>
    /\ gw_slept' = <<>>
    /\ gw_calls' = gw_calls + 1
    /\ GatewayKeeps

\* One execution of generate's body, then retry=retry_if_exception_type
\* and stop: a return ends the call, an exception is retried unless stop
\* says so, and then RetryError is raised to the caller.
GatewayAttempt ==
    /\ gw_pc = "attempt"
    /\ \E outcome \in AttemptOutcomes :
        /\ gw_outcomes' = Append(gw_outcomes, outcome)
        /\ gw_pc' = IF outcome # "raise" THEN "returned"
                    ELSE IF stop_after_attempt(attempt_number) THEN "raised"
                    ELSE "wait"
    /\ UNCHANGED <<gw_caller, attempt_number, gw_slept, gw_calls>>
    /\ GatewayKeeps

\* sleep(wait(retry_state)) and the next attempt
GatewayWait ==
    /\ gw_pc = "wait"
    /\ gw_slept' = Append(gw_slept, wait_exponential(attempt_number))
    /\ attempt_number' = attempt_number + 1
    /\ gw_pc' = "attempt"
    /\ UNCHANGED <<gw_caller, gw_outcomes, gw_calls>>
    /\ GatewayKeeps

NextGateway ==
    \/ GatewayCall
    \/ GatewayAttempt
    \/ GatewayWait

\* The thread of the call keeps running: an attempt ends and a sleep ends.
SpecGateway == InitGateway /\ [][NextGateway]_vars /\ WF_vars(NextGateway)

AllAttemptsFailed ==
    /\ Len(gw_outcomes) = 3
    /\ \A i \in DOMAIN gw_outcomes : gw_outcomes[i] = "raise"

GatewayBounded ==
    /\ Len(gw_outcomes) <= 3
    /\ attempt_number <= 3
    /\ gw_pc # "idle" =>
        Len(gw_slept) = attempt_number - 1
    /\ \A i \in DOMAIN gw_slept : 2 <= gw_slept[i] /\ gw_slept[i] <= 10
    /\ gw_pc = "raised" <=> AllAttemptsFailed
    /\ gw_pc = "returned" => gw_outcomes[Len(gw_outcomes)] # "raise"

----------------------------------------------------------------------------
(* Phase 6: User_Retrieval_Pipeline.answer on a store of events, appearances *)
(* and daily summaries (SpecAnswer).                                         *)

MaxAnswerEvents == 4

\* No action keyword; no video file name.
NoKeyword == ""
NoFile    == ""

\* The events of the store: the day, the summary, the video file and the
\* persons with a StoredAppearance.
StoredEventKinds ==
    {[date |-> 0, llm_description |-> "Person_1 comes home (huijia)",
      video_filename |-> "clip.mp4", people |-> <<1>>],
     [date |-> 0, llm_description |-> "a person stands at the door",
      video_filename |-> NoFile, people |-> <<1>>],
     [date |-> 1, llm_description |-> "Person_1 comes home (huijia)",
      video_filename |-> "clip.mp4", people |-> <<>>]}

EventLogsOf(kinds) ==
    [i \in DOMAIN kinds |->
        [id |-> i, start_time |-> kinds[i].date * DaySeconds + 100 * i,
         camera_location |-> {"doorbell"},
         llm_description |-> kinds[i].llm_description,
         video_filename |-> kinds[i].video_filename]]

EventAppearancesOf(kinds) ==
    Flatten([i \in DOMAIN kinds |->
        [k \in DOMAIN kinds[i].people |->
            [event_id |-> i, person_id |-> kinds[i].people[k],
             match_method |-> "face", body_embedding |-> 10]]])

\* The rows run_for_date has written for the dates of the events.
DailySummariesOf(logs) ==
    {[id |-> d + 1, summary_date |-> d, summary_text |-> "narrative",
      total_events |-> Len(fetch_events(logs, d)), created_at |-> 1, updated_at |-> 1] :
        d \in {DATE(logs[i].start_time) : i \in DOMAIN logs}}

\* A question as the regular expressions and keyword lists of QueryParser
\* see it: the person alias, the date, the action keyword and whether it
\* asks for a summary.
AnswerQuestions ==
    [person_name : {"", "Family"}, date : {None, 0, 1},
     keyword : {NoKeyword, "huijia"}, asks_summary : BOOLEAN]

SnapshotOutcomes == {"snapshot", "no_file", "os_error"}

\* QueryParser._get_person_id_by_name: the id of a Person of that name, or
\* None (also when the query fails).
_get_person_id_by_name(name, db_ok) ==
    LET found == {id \in DOMAIN persons : persons[id].name.kind = name} IN
    IF db_ok /\ found # {} THEN MinOf(found) ELSE None

\* QueryParser.parse (_extract_date gives a date, never a date range).
parse(user_query, db_ok) ==
    [person_id  |-> IF user_query.person_name = "" THEN None
                    ELSE _get_person_id_by_name(user_query.person_name, db_ok),
     date       |-> user_query.date,
     keyword    |-> user_query.keyword,
     query_type |-> IF user_query.asks_summary THEN "summary" ELSE "detail"]

\* el.llm_description ILIKE %keyword%
ILIKE(llm_description, keyword) ==
    keyword = "huijia" /\ llm_description = "Person_1 comes home (huijia)"

RECURSIVE ByStartTimeDesc(_, _)
ByStartTimeDesc(logs, ids) ==
    IF ids = {} THEN <<>>
    ELSE LET i == CHOOSE i \in ids : \A j \in ids : logs[j].start_time <= logs[i].start_time
         IN  <<i>> \o ByStartTimeDesc(logs, ids \ {i})

\* RetrievalEngine._retrieve_summary: the row of the date, or the most
\* recent rows (fewer than 10 here); [] when the query fails.
_retrieve_summary(query_obj, db_ok) ==
    IF ~db_ok THEN <<>>
    ELSE LET rows == {r \in daily_summaries :
                        query_obj.date # None => r.summary_date = query_obj.date}
             seq  == CHOOSE q \in [1..Cardinality(rows) -> rows] :
                        \A i, j \in DOMAIN q : i < j => q[i].summary_date > q[j].summary_date
         IN  [i \in DOMAIN seq |->
                [type |-> "summary", summary_date |-> seq[i].summary_date,
                 summary_text |-> seq[i].summary_text]]

JoinedRows_AnyDate(query_obj, with_keyword) ==
    {j \in DOMAIN event_appearances :
        LET ea == event_appearances[j]
            el == event_logs[ea.event_id]
        IN  /\ Truthy(query_obj.person_id) => ea.person_id = query_obj.person_id
            /\ with_keyword => ILIKE(el.llm_description, query_obj.keyword)}

\* The WHERE clause on event_logs JOIN event_appearances.
JoinedRows(query_obj, with_keyword) ==
    {j \in DOMAIN event_appearances :
        LET ea == event_appearances[j]
            el == event_logs[ea.event_id]
        IN  /\ query_obj.date # None => DATE(el.start_time) = query_obj.date
            /\ Truthy(query_obj.person_id) => ea.person_id = query_obj.person_id
            /\ with_keyword => ILIKE(el.llm_description, query_obj.keyword)}

\* RetrievalEngine._retrieve_detail: the joined rows with the keyword and,
\* when there are none, without it, grouped by event, newest first (fewer
\* than LIMIT 50 here); [] when the query fails.
_retrieve_detail(query_obj, db_ok) ==
    IF ~db_ok THEN <<>>
    ELSE LET keyword_condition == query_obj.keyword # NoKeyword
             first == JoinedRows(query_obj, keyword_condition)
             rows  == IF first = {} /\ keyword_condition
                      THEN JoinedRows(query_obj, FALSE) ELSE first
             order == ByStartTimeDesc(event_logs,
                                      {event_appearances[j].event_id : j \in rows})
         IN  [n \in DOMAIN order |->
                LET el == event_logs[order[n]] IN
                [type |-> "detail", event_id |-> el.id, start_time |-> el.start_time,
                 llm_description |-> el.llm_description,
                 video_filename |-> el.video_filename,
                 appearances |-> {j \in rows : event_appearances[j].event_id = el.id}]]

\* RetrievalEngine.retrieve
retrieve(query_obj, db_ok) ==
    IF query_obj.query_type = "summary" THEN _retrieve_summary(query_obj, db_ok)
    ELSE _retrieve_detail(query_obj, db_ok)

\* EvidenceMaterializer.materialize: a snapshot per appearance of a detail
\* record whose video file is there.  video_path.exists() stands outside
\* _extract_snapshot's try: an OSError of the file system other than "no
\* such file" leaves materialize.
MaterializeRaises(retrieved_records, fs) ==
    /\ fs = "os_error"
    /\ \E i \in DOMAIN retrieved_records :
        /\ retrieved_records[i].type = "detail"
        /\ retrieved_records[i].appearances # {}
        /\ retrieved_records[i].video_filename # NoFile

materialize(retrieved_records, fs) ==
    [i \in DOMAIN retrieved_records |->
        IF retrieved_records[i].type = "summary" THEN retrieved_records[i]
        ELSE [retrieved_records[i] EXCEPT !.appearances =
                {[appearance_id |-> j,
                  snapshot |-> fs = "snapshot"
                               /\ retrieved_records[i].video_filename # NoFile] : j \in @}]]

\* RAGSynthesisEngine._generate_no_result_answer: the fixed message.
_generate_no_result_answer == [kind |-> "no_result"]

\* RAGSynthesisEngine._generate_fallback_answer: the number of records and
\* a line (start_time, description) for each detail record among the first
\* three.
_generate_fallback_answer(retrieved_evidence) ==
    IF retrieved_evidence = <<>> THEN _generate_no_result_answer
    ELSE LET top == SubSeq(retrieved_evidence, 1, Min2(3, Len(retrieved_evidence)))
             details == SelectSeq(top, LAMBDA e : e.type = "detail")
         IN  [kind |-> "fallback", evidence_count |-> Len(retrieved_evidence),
              lines |-> [i \in DOMAIN details |->
                            <<details[i].start_time, details[i].llm_description>>]]

\* RAGSynthesisEngine.synthesize: generate() returns the text, returns ""
\* or raises after its retries.
synthesize(retrieved_evidence, llm) ==
    IF retrieved_evidence = <<>>
    THEN [answer |-> _generate_no_result_answer, llm_invoked |-> FALSE]
    ELSE [answer |-> CASE llm = "text"  -> [kind |-> "llm", text |-> "generated answer"]
                       [] llm = "empty" -> [kind |-> "llm", text |-> ""]
                       [] OTHER -> _generate_fallback_answer(retrieved_evidence),
          llm_invoked |-> TRUE]

\* User_Retrieval_Pipeline.answer
answer(user_query, parse_ok, db_ok, fs, llm) ==
    LET query_obj == parse(user_query, parse_ok)
        retrieved_records == retrieve(query_obj, db_ok)
        ran == [done |-> TRUE, user_query |-> user_query, query_obj |-> query_obj,
                retrieved_records |-> retrieved_records, llm |-> llm, db_ok |-> db_ok]
    IN  IF retrieved_records = <<>>
        THEN ran @@ [raised |-> FALSE, answer |-> _generate_no_result_answer,
                     llm_invoked |-> FALSE]
        ELSE IF MaterializeRaises(retrieved_records, fs)
        THEN ran @@ [raised |-> TRUE, answer |-> [kind |-> "none"],
                     llm_invoked |-> FALSE]
        ELSE ran @@ [raised |-> FALSE]
                 @@ synthesize(materialize(retrieved_records, fs), llm)

InitAnswer ==
    /\ \E kinds \in SeqsUpTo(StoredEventKinds, MaxAnswerEvents) :
        /\ event_logs = EventLogsOf(kinds)
        /\ event_appearances = EventAppearancesOf(kinds)
        /\ daily_summaries \in {{}, DailySummariesOf(EventLogsOf(kinds))}
    /\ persons = <<PersonRow(PersonName("Family", 1, None), "owner", None, None)>>
    /\ person_faces = {[person_id |-> 1, embedding |-> 1, source_image |-> 1]}
    /\ call = NoCall /\ result = NoResult
    /\ tx = NoTx /\ job = NoJob /\ saved = NoSaved /\ enrolment = NoEnrolment
    /\ clock = 1 /\ summary_run = NoRun
    /\ IdleWorkers /\ IdleFusion /\ IdlePolicy /\ IdleScanner /\ IdleRoleMap
    /\ IdleGateway /\ IdleAnswer /\ IdleRefiner /\ IdleValidator

\* One call of answer on the store; answer leaves the store as it is, so a
\* later call starts where this one does.
Answer ==
    /\ answer_run = NoRun
    /\ \E user_query \in AnswerQuestions, parse_ok, db_ok \in BOOLEAN,
          fs \in SnapshotOutcomes, llm \in AttemptOutcomes :
        answer_run' = answer(user_query, parse_ok, db_ok, fs, llm)
    /\ UNCHANGED <<arbiterVars, workerVars, fusionVars, storeVars, policyVars,
                   scannerVars, roleMapVars, summaryVars, gatewayVars, refinerVars,
                   validatorVars>>

NextAnswer == Answer

SpecAnswer == InitAnswer /\ [][NextAnswer]_vars

\* The StoredEvents that match the parsed filter: the date, the person (one
\* of the event's appearances) and, if asked for, the action keyword.
MatchingEvents(query_obj, with_keyword) ==
    {i \in DOMAIN event_logs :
        /\ query_obj.date # None => DATE(event_logs[i].start_time) = query_obj.date
        /\ Truthy(query_obj.person_id) =>
              \E j \in DOMAIN event_appearances :
                  /\ event_appearances[j].event_id = i
                  /\ event_appearances[j].person_id = query_obj.person_id
        /\ (with_keyword /\ query_obj.keyword # NoKeyword) =>
              ILIKE(event_logs[i].llm_description, query_obj.keyword)}

MatchingSummaries(query_obj) ==
    {r \in daily_summaries : query_obj.date # None => r.summary_date = query_obj.date}

NoRecordsAnswer ==
    /\ ~answer_run.raised
    /\ answer_run.answer = [kind |-> "no_result"]
    /\ ~answer_run.llm_invoked

\* C26 as stated: if no StoredEvent matches the parsed filter (date, person
\* and keyword) and no DailySummary matches, answer returns the fixed
\* no-records message and the LLM is not invoked.
C26_NoMatchNoLLM ==
    (/\ answer_run.done
     /\ MatchingEvents(answer_run.query_obj, TRUE) = {}
     /\ MatchingSummaries(answer_run.query_obj) = {}) => NoRecordsAnswer

\* C26: if no StoredEvent matches the date and the person of the parsed
\* filter (the keyword left aside, as the retrieval drops it when it matches
\* nothing) and no DailySummary matches, answer returns the fixed no-records
\* message and the LLM is not invoked.
C26_NoLooseMatchNoLLM ==
    (/\ answer_run.done
     /\ MatchingEvents(answer_run.query_obj, FALSE) = {}
     /\ MatchingSummaries(answer_run.query_obj) = {}) => NoRecordsAnswer

\* A store with events, none on the day asked for; the LLM would have
\* answered.
C26_Witness ==
    /\ answer_run.done
    /\ event_logs # <<>>
    /\ answer_run.query_obj.query_type = "detail"
    /\ MatchingEvents(answer_run.query_obj, FALSE) = {}
    /\ MatchingSummaries(answer_run.query_obj) = {}
    /\ answer_run.llm = "text"
    /\ NoRecordsAnswer


\* C40: if the store contains at least one StoredEvent matching the parsed
\* date and person filter of a detail query, answer does not return the
\* fixed no-records message, including when the matching events have no
\* StoredAppearance rows.  (Checked for the calls whose store queries
\* succeed.)
C40_MatchingEventNotNoRecords ==
    (/\ answer_run.done
     /\ answer_run.db_ok
     /\ answer_run.query_obj.query_type = "detail"
     /\ MatchingEvents(answer_run.query_obj, FALSE) # {}) =>
        answer_run.answer.kind # "no_result"

\* What the code does keep: a matching event that has a StoredAppearance
\* row is found.
MatchingEventWithAppearanceFound ==
    (/\ answer_run.done
     /\ answer_run.db_ok
     /\ answer_run.query_obj.query_type = "detail"
     /\ \E i \in MatchingEvents(answer_run.query_obj, FALSE) :
            \E j \in DOMAIN event_appearances : event_appearances[j].event_id = i) =>
        answer_run.answer.kind # "no_result"

\* A detail query on a day whose only events have no StoredAppearance row.
OnlyEventsWithoutAppearance ==
    /\ answer_run.done /\ answer_run.db_ok
    /\ answer_run.query_obj.query_type = "detail"
    /\ MatchingEvents(answer_run.query_obj, FALSE) # {}
    /\ \A i \in MatchingEvents(answer_run.query_obj, FALSE) :
          \A j \in DOMAIN event_appearances : event_appearances[j].event_id # i

\* C27: answer never raises and its answer is a user-readable string, for
\* every question and every failure of the store, the snapshot materializer
\* or the LLM.
C27_AnswerNeverRaises ==
    answer_run.done =>
        /\ ~answer_run.raised
        /\ answer_run.answer.kind \in {"llm", "no_result", "fallback"}
        /\ answer_run.answer.kind = "llm" => answer_run.answer.text # ""

\* C28: when retrieval returned evidence and the LLM call fails or yields an
\* empty response, the answer is the text stitched from the top 3 event
\* descriptions, never the empty string.
C28_FallbackOnLLMFailure ==
    (/\ answer_run.done
     /\ ~answer_run.raised
     /\ answer_run.retrieved_records # <<>>
     /\ answer_run.llm \in {"empty", "raise"}) =>
        LET top == SubSeq(answer_run.retrieved_records, 1,
                          Min2(3, Len(answer_run.retrieved_records)))
        IN  /\ answer_run.answer.kind = "fallback"
            /\ answer_run.query_obj.query_type = "detail" =>
                  answer_run.answer.lines =
                    [i \in DOMAIN top |-> <<top[i].start_time, top[i].llm_description>>]

\* The same for a raising LLM call alone.
FallbackOnLLMRaise ==
    (/\ answer_run.done
     /\ ~answer_run.raised
     /\ answer_run.retrieved_records # <<>>
     /\ answer_run.llm = "raise") =>
        LET top == SubSeq(answer_run.retrieved_records, 1,
                          Min2(3, Len(answer_run.retrieved_records)))
        IN  /\ answer_run.answer.kind = "fallback"
            /\ answer_run.query_obj.query_type = "detail" =>
                  answer_run.answer.lines =
                    [i \in DOMAIN top |-> <<top[i].start_time, top[i].llm_description>>]

\* answer raises only out of the materializer; its answer is empty only
\* when the LLM's response is.
RaisesOnlyInMaterializer ==
    answer_run.done =>
        /\ answer_run.raised =>
              \E i \in DOMAIN answer_run.retrieved_records :
                  answer_run.retrieved_records[i].video_filename # NoFile
        /\ (~answer_run.raised /\ answer_run.llm # "empty") =>
              (answer_run.answer.kind = "llm" => answer_run.answer.text # "")

----------------------------------------------------------------------------
(* Phase 2: IdentityRefiner.refine_event_identities on one packed event     *)
(* (SpecRefiner).                                                           *)

MaxRefinerClips  == 2
MaxRefinerFrames == 2
MaxFramePeople   == 2

\* What the arbiter leaves in a frame: Person 1 or 2 by face, by soft
\* match, or a stranger.
RefinerDetections == {family1, suspected1, suspected2, stranger}

RefinerFrames == SeqsUpTo(RefinerDetections, MaxFramePeople) \ {<<>>}

RefinerPeopleDetected == SeqsUpTo(RefinerFrames, MaxRefinerFrames) \ {<<>>}

\* The clips of an event, 10 s apart on one camera.
RefinerClips(people) ==
    [i \in DOMAIN people |->
        [time |-> 10 * i, cam |-> "doorbell", has_fields |-> TRUE,
         people_detected |-> people[i]]]

InitRefiner ==
    /\ \E people \in SeqsUpTo(RefinerPeopleDetected, MaxRefinerClips) \ {<<>>} :
        refiner_event = pack(RefinerClips(people))
    /\ refined_event = NoEvent
    /\ persons = <<>> /\ person_faces = {} /\ call = NoCall /\ result = NoResult
    /\ IdleWorkers /\ IdleFusion /\ IdleStore /\ IdlePolicy /\ IdleScanner
    /\ IdleRoleMap /\ IdleSummary /\ IdleGateway /\ IdleAnswer /\ IdleValidator

\* global_event = self.identity_refiner.refine_event_identities(global_event)
Refine ==
    /\ refined_event = NoEvent
    /\ refined_event' = refine_event_identities(refiner_event)
    /\ UNCHANGED <<refiner_event, arbiterVars, workerVars, fusionVars, storeVars,
                   policyVars, scannerVars, roleMapVars, summaryVars, gatewayVars,
                   answerVars, validatorVars>>

NextRefiner == Refine

SpecRefiner == InitRefiner /\ [][NextRefiner]_vars

\* The places of the event's detections: clip, frame, index in the frame.
Places(global_event) ==
    {<<c, f, i>> \in (1..MaxRefinerClips + 1) \X (1..MaxRefinerFrames + 1)
                        \X (1..MaxFramePeople + 1) :
        /\ c \in DOMAIN global_event.clips
        /\ f \in DOMAIN global_event.clips[c].people_detected
        /\ i \in DOMAIN global_event.clips[c].people_detected[f]}

At(global_event, place) ==
    global_event.clips[place[1]].people_detected[place[2]][place[3]]

\* How often the event holds the person id, and how often in that role.
TimesSeen(global_event, person_id) ==
    Cardinality({q \in Places(global_event) :
                    At(global_event, q).person_id = person_id})

TimesSeenAs(global_event, person_id, role) ==
    Cardinality({q \in Places(global_event) :
                    /\ At(global_event, q).person_id = person_id
                    /\ At(global_event, q).role = role})

PromotedFromSuspected(place) ==
    /\ At(refined_event, place).role = "family"
    /\ At(refined_event, place).method = "refined_from_suspected"

\* C32 as stated: a suspected_family detection of a person is promoted to
\* family with method refined_from_suspected when, and only when, the
\* person id was resolved as suspected_family at least 3 times in the event.
C32_PromotedIffSuspectedThrice ==
    refined_event # NoEvent =>
        \A place \in Places(refiner_event) :
            LET d == At(refiner_event, place) IN
            (d.role = "suspected_family" /\ Truthy(d.person_id)) =>
                (PromotedFromSuspected(place)
                    <=> TimesSeenAs(refiner_event, d.person_id, "suspected_family") >= 3)

\* C32: a suspected_family detection of a person is promoted to family with
\* method refined_from_suspected when, and only when, the person id appears
\* at least 3 times among the event's detections, in whatever role; so it is
\* whenever the person was resolved as suspected_family at least 3 times.
C32_PromotedIffSeenThrice ==
    refined_event # NoEvent =>
        \A place \in Places(refiner_event) :
            LET d == At(refiner_event, place) IN
            (d.role = "suspected_family" /\ Truthy(d.person_id)) =>
                /\ PromotedFromSuspected(place)
                      <=> TimesSeen(refiner_event, d.person_id) >= 3
                /\ TimesSeenAs(refiner_event, d.person_id, "suspected_family") >= 3
                      => PromotedFromSuspected(place)

\* Person 2 was resolved as suspected_family three times in two clips and
\* is promoted; Person 1, seen once, is not.
C32_Witness ==
    /\ refined_event # NoEvent
    /\ refiner_event.clip_count = 2
    /\ TimesSeenAs(refiner_event, 2, "suspected_family") = 3
    /\ TimesSeenAs(refiner_event, 1, "suspected_family") = 1
    /\ TimesSeen(refiner_event, 1) = 1
    /\ \A place \in Places(refiner_event) :
          /\ At(refiner_event, place) = suspected2 => PromotedFromSuspected(place)
          /\ At(refiner_event, place) = suspected1 =>
                At(refined_event, place).role = "suspected_family"

MarkedFromStranger(place) ==
    /\ At(refined_event, place).role = "suspected_family"
    /\ At(refined_event, place).method = "refined_from_stranger"

\* C33 as stated: the stranger detections of an event are marked
\* suspected_family with method refined_from_stranger when, and only when,
\* the event holds at least one family detection and at least 3 stranger
\* detections.
C33_MarkedIffFamilyAndThree ==
    refined_event # NoEvent =>
        \A place \in Places(refiner_event) :
            At(refiner_event, place) = stranger =>
                (MarkedFromStranger(place)
                    <=> /\ \E q \in Places(refiner_event) :
                              At(refiner_event, q).role = "family"
                        /\ TimesSeen(refiner_event, None) >= 3)

\* C33: the stranger detections of an event are marked suspected_family
\* with method refined_from_stranger when, and only when, the event holds
\* at least one detection of a known person resolved as family or as
\* suspected_family and at least 3 stranger detections; so they are
\* whenever the event holds a family detection and 3 stranger detections.
C33_MarkedIffKnownAndThree ==
    refined_event # NoEvent =>
        \A place \in Places(refiner_event) :
            At(refiner_event, place) = stranger =>
                (MarkedFromStranger(place)
                    <=> /\ \E q \in Places(refiner_event) :
                              /\ At(refiner_event, q).person_id # None
                              /\ At(refiner_event, q).role
                                    \in {"family", "suspected_family"}
                        /\ TimesSeen(refiner_event, None) >= 3)

\* A family detection and three stranger detections in two clips: the
\* three are marked.
C33_Witness ==
    /\ refined_event # NoEvent
    /\ refiner_event.clip_count = 2
    /\ TimesSeen(refiner_event, None) = 3
    /\ TimesSeenAs(refiner_event, 1, "family") = 1
    /\ TimesSeen(refiner_event, 2) = 0
    /\ \A place \in Places(refiner_event) :
          At(refiner_event, place) = stranger => MarkedFromStranger(place)

\* The detection shares its frame with a detection the arbiter resolved
\* as family.
WithFamilyInFrame(place) ==
    \E q \in Places(refiner_event) :
        /\ q[1] = place[1] /\ q[2] = place[2] /\ q[3] # place[3]
        /\ At(refiner_event, q).role = "family"

\* C34: every suspected_family or stranger detection in the same frame list
\* as a confirmed family detection is promoted to family with method
\* refined_from_context.
C34_PromotedInContext ==
    refined_event # NoEvent =>
        \A place \in Places(refiner_event) :
            (/\ At(refiner_event, place).role \in {"suspected_family", "stranger"}
             /\ WithFamilyInFrame(place)) =>
                /\ At(refined_event, place).role = "family"
                /\ At(refined_event, place).method = "refined_from_context"

\* What holds of rule 3: a detection with a person id that shares its frame
\* with a family detection ends as family, by rule 1 if the person is seen
\* 3 times in the event and by rule 3 otherwise; a detection without a
\* person id never ends as family.
ContextPromotesKnownOnly ==
    refined_event # NoEvent =>
        \A place \in Places(refiner_event) :
            LET d == At(refiner_event, place)
                r == At(refined_event, place)
            IN  /\ (d.role = "suspected_family" /\ Truthy(d.person_id)
                        /\ WithFamilyInFrame(place)) =>
                      /\ r.role = "family"
                      /\ r.method = IF TimesSeen(refiner_event, d.person_id) >= 3
                                    THEN "refined_from_suspected"
                                    ELSE "refined_from_context"
                /\ d.person_id = None => r.role # "family"

\* The event with the detections of one frame in another order.
FrameOrders(n) == {q \in [1..n -> 1..n] : \A i, j \in 1..n : q[i] = q[j] => i = j}

PermuteFrame(global_event, c, f, order) ==
    [global_event EXCEPT !.clips[c].people_detected[f] =
        [i \in DOMAIN @ |-> @[order[i]]]]

SameRefinement(c, f, order) ==
    LET permuted == refine_event_identities(PermuteFrame(refiner_event, c, f, order))
    IN  \A i \in DOMAIN order :
            /\ At(permuted, <<c, f, i>>).role
                  = At(refined_event, <<c, f, order[i]>>).role
            /\ At(permuted, <<c, f, i>>).method
                  = At(refined_event, <<c, f, order[i]>>).method

\* C35: the refiner's result does not depend on the order of detections
\* inside a frame: with the detections of any frame permuted, every
\* detection gets the same refined role and method.
C35_OrderInFrameIrrelevant ==
    refined_event # NoEvent =>
        \A c \in DOMAIN refiner_event.clips :
            \A f \in DOMAIN refiner_event.clips[c].people_detected :
                \A order \in FrameOrders(Len(refiner_event.clips[c].people_detected[f])) :
                    SameRefinement(c, f, order)

\* The order matters only through rule 1: in events in which no person
\* resolved as suspected_family is seen 3 times the result is the same for
\* every order.
OrderIrrelevantWithoutRule1 ==
    (/\ refined_event # NoEvent
     /\ \A place \in Places(refiner_event) : ~PromotedFromSuspected(place)) =>
        \A c \in DOMAIN refiner_event.clips :
            \A f \in DOMAIN refiner_event.clips[c].people_detected :
                \A order \in FrameOrders(Len(refiner_event.clips[c].people_detected[f])) :
                    SameRefinement(c, f, order)

----------------------------------------------------------------------------
(* Phase 3: ResponseValidator.validate_and_clean on the text of one LLM     *)
(* response (SpecValidator).  A text is a sequence of characters; the       *)
(* responses are made of a few words, so that keywords, a negation and the  *)
(* 5 characters before a keyword can be told apart.                         *)

MaxWords == 4

\* '家人' of family_keywords, '陌生人' of stranger_keywords, '未' of
\* negative_patterns, a character that is none of them, five of those, and
\* a blank.
FamilyKeyword   == <<"jia", "ren">>
StrangerKeyword == <<"mo", "sheng", "ren">>
NegativePattern == <<"wei">>
ResponseWords ==
    {FamilyKeyword, StrangerKeyword, NegativePattern, <<"x">>,
     <<"x", "x", "x", "x", "x">>, <<" ">>}

family_keywords   == <<FamilyKeyword>>
stranger_keywords == <<StrangerKeyword>>
negative_patterns == <<NegativePattern>>

\* The responses: up to MaxWords words, joined.
RawResponses == {Flatten(ws) : ws \in SeqsUpTo(ResponseWords, MaxWords)}

\* keyword occurs in text at the 0-based position pos.
OccursAt(text, keyword, pos) ==
    /\ pos >= 0
    /\ pos + Len(keyword) <= Len(text)
    /\ SubSeq(text, pos + 1, pos + Len(keyword)) = keyword

\* keyword in text
In(keyword, text) == \E pos \in 0 .. Len(text) : OccursAt(text, keyword, pos)

\* text.find(keyword): the lowest position, -1 when there is none.
find(text, keyword) ==
    IF In(keyword, text)
    THEN MinOf({pos \in 0 .. Len(text) : OccursAt(text, keyword, pos)})
    ELSE -1

\* text[max(0, keyword_pos - 5) : keyword_pos]
context_before(text, keyword_pos) ==
    SubSeq(text, MaxOf({0, keyword_pos - 5}) + 1, keyword_pos)

\* not any(neg in context_before for neg in negative_patterns)
NotNegated(text, keyword_pos) ==
    ~\E n \in DOMAIN negative_patterns :
        In(negative_patterns[n], context_before(text, keyword_pos))

\* for keyword in keywords: if keyword in text: the first occurrence, and
\* only when it is not at the start of the text, is looked at.
KeywordWarns(text, keywords) ==
    \E k \in DOMAIN keywords :
        LET keyword_pos == find(text, keywords[k]) IN
        /\ In(keywords[k], text)
        /\ keyword_pos > 0
        /\ NotNegated(text, keyword_pos)

\* ResponseValidator._check_hallucination on the cleaned text: is_valid.
_check_hallucination_text(text, timeline_has_family, timeline_has_stranger) ==
    /\ ~(~timeline_has_family /\ KeywordWarns(text, family_keywords))
    /\ ~(~timeline_has_stranger /\ KeywordWarns(text, stranger_keywords))

\* text.strip(), the last step of _clean_format; the responses hold no
\* markup character and no newline.
RECURSIVE strip(_)
strip(text) ==
    IF text = <<>> THEN text
    ELSE IF Head(text) = " " THEN strip(Tail(text))
    ELSE IF text[Len(text)] = " " THEN strip(SubSeq(text, 1, Len(text) - 1))
    ELSE text

_clean_format(text) == strip(text)

\* ResponseValidator.validate_and_clean on the text: the cleaned text, or
\* the template summary of _generate_fallback.
validate_and_clean_text(raw_response, timeline_has_family, timeline_has_stranger) ==
    IF strip(raw_response) = <<>>
    THEN [done |-> TRUE, fallback |-> TRUE, cleaned_text |-> <<>>]
    ELSE LET cleaned_text == _clean_format(raw_response) IN
         [done |-> TRUE,
          fallback |-> ~_check_hallucination_text(cleaned_text, timeline_has_family,
                                                  timeline_has_stranger),
          cleaned_text |-> cleaned_text]

InitValidator ==
    /\ \E raw_response \in RawResponses, timeline_has_family, timeline_has_stranger \in BOOLEAN :
        validator_call = [done |-> FALSE, raw_response |-> raw_response,
                          timeline_has_family |-> timeline_has_family,
                          timeline_has_stranger |-> timeline_has_stranger]
    /\ validator_result = NoValidation
    /\ persons = <<>> /\ person_faces = {} /\ call = NoCall /\ result = NoResult
    /\ IdleWorkers /\ IdleFusion /\ IdleStore /\ IdlePolicy /\ IdleScanner
    /\ IdleRoleMap /\ IdleSummary /\ IdleGateway /\ IdleAnswer /\ IdleRefiner

\* validation = self.response_validator.validate_and_clean(raw_response, global_event)
Validate ==
    /\ validator_result = NoValidation
    /\ validator_result' = validate_and_clean_text(validator_call.raw_response,
                                validator_call.timeline_has_family,
                                validator_call.timeline_has_stranger)
    /\ UNCHANGED <<validator_call, arbiterVars, workerVars, fusionVars, storeVars,
                   policyVars, scannerVars, roleMapVars, summaryVars, gatewayVars,
                   answerVars, refinerVars>>

NextValidator == Validate

SpecValidator == InitValidator /\ [][NextValidator]_vars

\* The text mentions a keyword that no negation precedes within 5
\* characters.
MentionsUnnegated(text, keywords) ==
    \E k \in DOMAIN keywords, pos \in 0 .. Len(text) :
        /\ OccursAt(text, keywords[k], pos)
        /\ NotNegated(text, pos)

\* C39: if the timeline text of an event does not mention a family-class
\* person but the LLM output mentions one that is not preceded within 5
\* characters by a negation, the output is flagged and replaced by the
\* deterministic template summary; the same holds symmetrically for
\* stranger-class mentions.
C39_UnnegatedMentionFlagged ==
    validator_result.done =>
        /\ (/\ ~validator_call.timeline_has_family
            /\ MentionsUnnegated(validator_result.cleaned_text, family_keywords))
           => validator_result.fallback
        /\ (/\ ~validator_call.timeline_has_stranger
            /\ MentionsUnnegated(validator_result.cleaned_text, stranger_keywords))
           => validator_result.fallback

\* What the code does keep: the first occurrence of a keyword, when it is
\* not at the start of the text and no negation precedes it within 5
\* characters, is flagged.
FirstMentionFlagged ==
    validator_result.done =>
        \A class \in {"family", "stranger"} :
            LET keywords == IF class = "family" THEN family_keywords ELSE stranger_keywords
                in_timeline == IF class = "family" THEN validator_call.timeline_has_family
                               ELSE validator_call.timeline_has_stranger
                text == validator_result.cleaned_text
            IN  (/\ ~in_timeline
                 /\ \E k \in DOMAIN keywords :
                      /\ find(text, keywords[k]) > 0
                      /\ NotNegated(text, find(text, keywords[k])))
                => validator_result.fallback

\* A response that names a family member after a negation more than 5
\* characters back was replaced.
FlaggedBeyondWindow ==
    /\ validator_result.done /\ validator_result.fallback
    /\ ~validator_call.timeline_has_family
    /\ validator_result.cleaned_text = Flatten(<<NegativePattern, <<"x", "x", "x", "x", "x">>,
                                                 FamilyKeyword>>)

====
